---- MODULE Spec2Model ----
(***************************************************************************)
(* Valuation and scoring engine of stock-valuator.                         *)
(*                                                                         *)
(* Numbers.  The engine computes in IEEE doubles.  Here every real is a    *)
(* fixed-point integer, rounded to the nearest unit after each operation   *)
(* as a double is rounded to the nearest representable value:              *)
(*   - dimensionless quantities (rates, beta, growth, discount factors,    *)
(*     margin of safety) count in units of 1/RateScale;                    *)
(*   - amounts of money (cash flows, values, prices) in 1/MoneyScale;      *)
(*   - share counts and years are plain integers.                          *)
(* A division whose divisor is zero yields Infinity or NaN, as in IEEE.    *)
(***************************************************************************)
EXTENDS Integers, Sequences, FiniteSets, TLC

VARIABLES fn, pc, args, locals, result, now, cache

vars == <<fn, pc, args, locals, result, now, cache>>

-----------------------------------------------------------------------------
(* Fixed-point arithmetic                                                  *)

RateScale == 1000 * 1000
MoneyScale == 10 * 100
MaxInt == (2^30 - 1) * 2 + 1

Abs(x) == IF x < 0 THEN -x ELSE x
Sign(x) == IF x < 0 THEN -1 ELSE IF x > 0 THEN 1 ELSE 0
Min(a, b) == IF a <= b THEN a ELSE b
Max(a, b) == IF a >= b THEN a ELSE b

\* <<q, r>> with a*b = q*c + r and 0 <= r < c, for 0 <= a < c, b >= 0,
\* computed digit by digit so that no intermediate value leaves 32 bits.
QuotRemDigit(p, a, d, c) ==
    <<10 * p[1] + (10 * p[2] + a * d) \div c, (10 * p[2] + a * d) % c>>

RECURSIVE QuotRem(_, _, _)
QuotRem(a, b, c) ==
    IF b = 0 \/ a = 0 THEN <<0, 0>>
    ELSE IF a <= MaxInt \div b THEN <<(a * b) \div c, (a * b) % c>>
    ELSE QuotRemDigit(QuotRem(a, b \div 10, c), a, b % 10, c)

RoundQuot(p, whole, c) == whole + p[1] + (IF 2 * p[2] >= c THEN 1 ELSE 0)

\* a*b/c for naturals a, b and c > 0, rounded to the nearest integer.
MulDivNat(a, b, c) == RoundQuot(QuotRem(a % c, b, c), (a \div c) * b, c)

\* a*b/c for integers a, b, c with c # 0, rounded to the nearest integer.
MulDiv(a, b, c) == Sign(a) * Sign(b) * Sign(c) * MulDivNat(Abs(a), Abs(b), Abs(c))

\* x*y and x/y of two quantities of which y is dimensionless.
Mul(x, y) == MulDiv(x, y, RateScale)
Div(x, y) == MulDiv(x, RateScale, y)

\* Math.pow(base, n) for a dimensionless base and an integer n >= 0.
RECURSIVE Pow(_, _)
Pow(base, n) == IF n = 0 THEN RateScale ELSE Mul(Pow(base, n - 1), base)

\* IEEE values of a field that a division by zero can reach.
Finite(v) == [cls |-> "finite", v |-> v]
Infinity(s) == [cls |-> "infinite", v |-> s]
NaN == [cls |-> "nan", v |-> 0]
IsFinite(x) == x.cls = "finite"

\* a*scale/b as IEEE computes a/b: +-Infinity or NaN when b = 0.
FloatDiv(a, b, scale) ==
    IF b # 0 THEN Finite(MulDiv(a, scale, b))
    ELSE IF a > 0 THEN Infinity(1)
    ELSE IF a < 0 THEN Infinity(-1)
    ELSE NaN

\* x - c and x/c for an IEEE value x and a finite c.
FloatSub(x, c) == IF IsFinite(x) THEN Finite(x.v - c) ELSE x
FloatDivBy(x, c, scale) ==
    IF x.cls = "finite" THEN FloatDiv(x.v, c, scale)
    ELSE IF x.cls = "infinite" THEN Infinity(IF c < 0 THEN -x.v ELSE x.v)
    ELSE NaN

\* The outcome of a call: a returned value or a thrown error.
Return(v) == [kind |-> "return", value |-> v]
Throw(name, message) == [kind |-> "throw", name |-> name, message |-> message]
NoResult == [kind |-> "none"]

-----------------------------------------------------------------------------
(* Constants (utils/constants.ts)                                          *)

MARKET_RETURN == 100000
DEFAULT_RISK_FREE_RATE == 45000
TERMINAL_GROWTH_RATE == 25000
DCF_PROJECTION_YEARS == 20
DCF_PHASE1_YEARS == 5
DCF_PHASE2_YEARS == 10
MARGIN_OF_SAFETY_BUY == 250000
PREMIUM_THRESHOLD_AVOID == 200000

-----------------------------------------------------------------------------
(* DCF engine                                                              *)

\* calculateWACC without its final clamp.
calculateWACCUnclamped(beta, riskFreeRate, marketReturn) ==
    riskFreeRate + Mul(Max(RateScale \div 2, Min(beta, 3 * RateScale)),
                       marketReturn - riskFreeRate)

calculateWACC(beta, riskFreeRate, marketReturn) ==
    LET adjustedBeta == Max(RateScale \div 2, Min(beta, 3 * RateScale))
        marketRiskPremium == marketReturn - riskFreeRate
        wacc == riskFreeRate + Mul(adjustedBeta, marketRiskPremium)
    IN  Max(RateScale \div 20, Min(wacc, RateScale \div 5))

\* calculateGrowthRate with the decay phase floored at 0.
calculateGrowthRateFlooredAtZero(year, analystGrowthRate, terminalGrowthRate) ==
    IF year <= DCF_PHASE1_YEARS THEN analystGrowthRate
    ELSE IF year > DCF_PHASE1_YEARS + DCF_PHASE2_YEARS THEN terminalGrowthRate
    ELSE Max(analystGrowthRate
               - Mul(analystGrowthRate - terminalGrowthRate,
                     ((year - DCF_PHASE1_YEARS) * RateScale) \div DCF_PHASE2_YEARS), 0)

\* calculateGrowthRate without the floor of its decay phase.
calculateGrowthRateUnfloored(year, analystGrowthRate, terminalGrowthRate) ==
    IF year <= DCF_PHASE1_YEARS THEN analystGrowthRate
    ELSE IF year > DCF_PHASE1_YEARS + DCF_PHASE2_YEARS THEN terminalGrowthRate
    ELSE analystGrowthRate
           - Mul(analystGrowthRate - terminalGrowthRate,
                 ((year - DCF_PHASE1_YEARS) * RateScale) \div DCF_PHASE2_YEARS)

calculateGrowthRate(year, analystGrowthRate, terminalGrowthRate) ==
    IF year <= DCF_PHASE1_YEARS THEN analystGrowthRate
    ELSE IF year > DCF_PHASE1_YEARS + DCF_PHASE2_YEARS THEN terminalGrowthRate
    ELSE LET decayYear == year - DCF_PHASE1_YEARS
             totalDecayYears == DCF_PHASE2_YEARS
             decayProgress == (decayYear * RateScale) \div totalDecayYears
             decayedRate == analystGrowthRate
                              - Mul(analystGrowthRate - terminalGrowthRate, decayProgress)
         IN  Max(decayedRate, terminalGrowthRate)

\* The projections for years 1..years, each from the previous year's FCF.
ProjectYear(before, startingFCF, year, growthRate) ==
    Append(before,
           [year |-> year,
            fcf |-> Mul(IF year = 1 THEN startingFCF ELSE before[year - 1].fcf,
                        RateScale + growthRate),
            growthRate |-> growthRate])

RECURSIVE projectFCF(_, _, _, _)
projectFCF(startingFCF, analystGrowthRate, terminalGrowthRate, years) ==
    IF years <= 0 THEN <<>>
    ELSE ProjectYear(projectFCF(startingFCF, analystGrowthRate, terminalGrowthRate, years - 1),
                     startingFCF, years,
                     calculateGrowthRate(years, analystGrowthRate, terminalGrowthRate))

\* calculateTerminalValue refusing every spread below five points.
calculateTerminalValueEager(finalFCF, terminalGrowthRate, discountRate) ==
    IF discountRate <= terminalGrowthRate + RateScale \div 20
    THEN Throw("Error", "Discount rate must be greater than terminal growth rate")
    ELSE Return(Div(Mul(finalFCF, RateScale + terminalGrowthRate),
                    discountRate - terminalGrowthRate))

calculateTerminalValue(finalFCF, terminalGrowthRate, discountRate) ==
    IF discountRate <= terminalGrowthRate
    THEN Throw("Error", "Discount rate must be greater than terminal growth rate")
    ELSE Return(Div(Mul(finalFCF, RateScale + terminalGrowthRate),
                    discountRate - terminalGrowthRate))

calculateDiscountFactor(year, discountRate) ==
    Div(RateScale, Pow(RateScale + discountRate, year))

calculatePresentValue(futureValue, year, discountRate) ==
    Mul(futureValue, calculateDiscountFactor(year, discountRate))

RECURSIVE SumPresentValue(_, _)
SumPresentValue(projections, n) ==
    IF n = 0 THEN 0 ELSE SumPresentValue(projections, n - 1) + projections[n].presentValue

\* Steps 3-4: each projection with its discount factor and present value.
\* DiscountProjection entering the cash flow itself as its present value.
DiscountProjectionUndiscounted(proj, discountFactor) ==
    [year |-> proj.year, fcf |-> proj.fcf, growthRate |-> proj.growthRate,
     discountFactor |-> discountFactor, presentValue |-> proj.fcf]

DiscountProjection(proj, discountFactor) ==
    [year |-> proj.year, fcf |-> proj.fcf, growthRate |-> proj.growthRate,
     discountFactor |-> discountFactor, presentValue |-> Mul(proj.fcf, discountFactor)]

DiscountProjections(fcfProjections, wacc) ==
    [k \in 1..Len(fcfProjections) |->
        DiscountProjection(fcfProjections[k],
                           calculateDiscountFactor(fcfProjections[k].year, wacc))]

\* Upside of the intrinsic price over the current price, as a fraction.
Upside(intrinsicPrice, currentPrice) ==
    FloatDivBy(FloatSub(intrinsicPrice, currentPrice), currentPrice, RateScale)

\* Steps 7-10: enterprise value down to the margin of safety.
DCFRollUp(in, currentPrice, wacc, projections, pvOfCashFlows, terminalValue, terminalValuePV) ==
    LET enterpriseValue == pvOfCashFlows + terminalValuePV
        equityValue == enterpriseValue - in.totalDebt + in.cash
        intrinsicPrice == FloatDiv(equityValue, in.sharesOutstanding, 1)
        upside == Upside(intrinsicPrice, currentPrice)
        marginOfSafety == upside
    IN  Return([projections |-> projections, wacc |-> wacc,
                terminalValue |-> terminalValue, terminalValuePV |-> terminalValuePV,
                enterpriseValue |-> enterpriseValue, equityValue |-> equityValue,
                intrinsicPrice |-> intrinsicPrice, currentPrice |-> currentPrice,
                upside |-> upside, marginOfSafety |-> marginOfSafety])

\* Step 6, after the terminal value tv of step 5 has returned or thrown.
DCFTerminal(in, currentPrice, wacc, projections, tv) ==
    IF tv.kind = "throw" THEN tv
    ELSE DCFRollUp(in, currentPrice, wacc, projections,
                   SumPresentValue(projections, Len(projections)), tv.value,
                   calculatePresentValue(tv.value, in.projectionYears, wacc))

\* Steps 3-5; the last projection of an empty list is undefined.
DCFDiscount(in, currentPrice, wacc, projections) ==
    IF Len(projections) = 0
    THEN Throw("TypeError", "Cannot read properties of undefined (reading 'fcf')")
    ELSE DCFTerminal(in, currentPrice, wacc, projections,
                     calculateTerminalValue(projections[Len(projections)].fcf,
                                            in.terminalGrowthRate, wacc))

calculateDCF(in, currentPrice) ==
    DCFDiscount(in, currentPrice,
                calculateWACC(in.beta, in.riskFreeRate, in.marketReturn),
                DiscountProjections(projectFCF(in.startingFCF, in.analystGrowthRate,
                                               in.terminalGrowthRate, in.projectionYears),
                                    calculateWACC(in.beta, in.riskFreeRate, in.marketReturn)))

\* calculateReverseDCF: the locals before the loop.
maxIterations == 50
tolerance == 100

ReverseTargetEV(a) == a.currentPrice * a.sharesOutstanding + a.totalDebt - a.cash

ReverseInit == [lowGrowth |-> -(RateScale \div 5), highGrowth |-> RateScale \div 2,
                impliedGrowthRate |-> 0, i |-> 0]

RECURSIVE SumDiscounted(_, _, _)
SumDiscounted(projections, n, wacc) ==
    IF n = 0 THEN 0
    ELSE SumDiscounted(projections, n - 1, wacc)
         + Mul(projections[n].fcf, calculateDiscountFactor(projections[n].year, wacc))

\* ReverseBisect breaking as soon as the value is within the target of the target.
ReverseBisectLoose(at, calculatedEV, targetEV) ==
    IF Abs(calculatedEV - targetEV) < targetEV
    THEN [step |-> "break", error |-> NoResult, locals |-> at]
    ELSE [step |-> "next", error |-> NoResult,
          locals |-> IF calculatedEV < targetEV
                     THEN [at EXCEPT !.lowGrowth = at.impliedGrowthRate, !.i = at.i + 1]
                     ELSE [at EXCEPT !.highGrowth = at.impliedGrowthRate, !.i = at.i + 1]]

\* The end of a pass: break within the tolerance, else move one end of the bracket.
ReverseBisect(at, calculatedEV, targetEV) ==
    IF Abs(calculatedEV - targetEV) < Mul(targetEV, tolerance)
    THEN [step |-> "break", error |-> NoResult, locals |-> at]
    ELSE [step |-> "next", error |-> NoResult,
          locals |-> IF calculatedEV < targetEV
                     THEN [at EXCEPT !.lowGrowth = at.impliedGrowthRate, !.i = at.i + 1]
                     ELSE [at EXCEPT !.highGrowth = at.impliedGrowthRate, !.i = at.i + 1]]

ReverseValue(a, at, pvOfCashFlows, tv) ==
    IF tv.kind = "throw" THEN [step |-> "throw", error |-> tv, locals |-> at]
    ELSE ReverseBisect(at,
                       pvOfCashFlows
                         + calculatePresentValue(tv.value, DCF_PROJECTION_YEARS, a.wacc),
                       ReverseTargetEV(a))

ReverseProject(a, at, projections) ==
    ReverseValue(a, at, SumDiscounted(projections, Len(projections), a.wacc),
                 calculateTerminalValue(projections[Len(projections)].fcf,
                                        a.terminalGrowthRate, a.wacc))

ReverseMidpoint(a, at) ==
    ReverseProject(a, at, projectFCF(a.startingFCF, at.impliedGrowthRate,
                                     a.terminalGrowthRate, DCF_PROJECTION_YEARS))

\* A pass that tries the upper end of the bracket instead of its midpoint.
ReverseIterateUpper(a, l) == ReverseMidpoint(a, [l EXCEPT !.impliedGrowthRate = l.highGrowth])

\* One pass of the loop body from locals l: "throw" with the error, "break" with
\* the locals at the break, or "next" with the locals of the next pass.
ReverseIterate(a, l) ==
    ReverseMidpoint(a, [l EXCEPT !.impliedGrowthRate = MulDiv(l.lowGrowth + l.highGrowth, 1, 2)])

\* The assessment with the reasonableness flag dropped one class too early.
ReverseAssessStrict(impliedGrowthRate) ==
    [impliedGrowthRate |-> impliedGrowthRate,
     assessment |-> [class |-> IF impliedGrowthRate > 300000 THEN "extremely aggressive"
                               ELSE IF impliedGrowthRate > 200000 THEN "very optimistic"
                               ELSE IF impliedGrowthRate > 100000 THEN "reasonably optimistic"
                               ELSE IF impliedGrowthRate > 0 THEN "conservative"
                               ELSE "pessimistic",
                     percentTenths |-> MulDiv(impliedGrowthRate, 1000, RateScale)],
     isReasonable |-> ~(impliedGrowthRate > 100000)]

\* The assessment after the loop: the class of the implied growth rate and
\* the reasonableness flag (the text carries the rate to one decimal of a percent).
ReverseAssess(impliedGrowthRate) ==
    [impliedGrowthRate |-> impliedGrowthRate,
     assessment |->
        [class |-> IF impliedGrowthRate > 300000 THEN "extremely aggressive"
                   ELSE IF impliedGrowthRate > 200000 THEN "very optimistic"
                   ELSE IF impliedGrowthRate > 100000 THEN "reasonably optimistic"
                   ELSE IF impliedGrowthRate > 0 THEN "conservative"
                   ELSE "pessimistic",
         percentTenths |-> MulDiv(impliedGrowthRate, 1000, RateScale)],
     isReasonable |-> ~(impliedGrowthRate > 200000)]

\* The whole call, as its callers see it: n passes of the loop from state s,
\* none after a throw or a break; the passes run half by half.  A pass is a
\* function of the bracket alone, so passes that have left the bracket as it
\* was leave it so to the end of the loop, and only i counts on.
RECURSIVE ReversePasses(_, _, _)
ReverseRest(a, s, half, n) ==
    IF half.step = "next" /\ half.locals.lowGrowth = s.locals.lowGrowth
                          /\ half.locals.highGrowth = s.locals.highGrowth
    THEN [half EXCEPT !.locals.i = s.locals.i + n]
    ELSE ReversePasses(a, half, n - n \div 2)

ReversePasses(a, s, n) ==
    IF s.step # "next" \/ n = 0 THEN s
    ELSE IF n = 1 THEN ReverseIterate(a, s.locals)
    ELSE CHOOSE end \in {ReverseRest(a, s, half, n) :
                            half \in {ReversePasses(a, s, n \div 2)}} : TRUE

ReverseOutcome(s) ==
    IF s.step = "throw" THEN s.error ELSE Return(ReverseAssess(s.locals.impliedGrowthRate))

calculateReverseDCF(a) ==
    ReverseOutcome(ReversePasses(a, [step |-> "next", error |-> NoResult,
                                     locals |-> ReverseInit], maxIterations))

\* generateSensitivityTable: one cell per (waccDelta, growthDelta), a failed
\* calculateDCF caught and entered as intrinsicPrice 0.
DefaultWaccRange == <<-20000, -10000, 0, 10000, 20000>>
DefaultGrowthRange == <<-50000, -25000, 0, 25000, 50000>>

SensitivityEntry(targetWACC, growth, r) ==
    [wacc |-> targetWACC, growth |-> growth,
     intrinsicPrice |-> IF r.kind = "return" THEN r.value.intrinsicPrice ELSE Finite(0)]

SensitivityInputs(in, targetWACC, growth) ==
    [in EXCEPT !.analystGrowthRate = growth,
               !.beta = Div(targetWACC - in.riskFreeRate, in.marketReturn - in.riskFreeRate)]

SensitivityCell(in, targetWACC, growth) ==
    SensitivityEntry(targetWACC, growth,
                     calculateDCF(SensitivityInputs(in, targetWACC, growth), 0))

SensitivityRows(in, baseWACC, waccRange, growthRange) ==
    [k \in 1..(Len(waccRange) * Len(growthRange)) |->
        SensitivityCell(in, baseWACC + waccRange[((k - 1) \div Len(growthRange)) + 1],
                        in.analystGrowthRate + growthRange[((k - 1) % Len(growthRange)) + 1])]

generateSensitivityTable(in, waccRange, growthRange) ==
    Return(SensitivityRows(in, calculateWACC(in.beta, in.riskFreeRate, in.marketReturn),
                           waccRange, growthRange))

-----------------------------------------------------------------------------
(* Recommendation (analysis/fundamental.ts)                                *)

\* The composite score that determineRecommendation computes and never reads.
compositeScore(marginOfSafety, fundamentalScore, technicalScore, confidenceScore) ==
    Mul(marginOfSafety * 100, 400000) + fundamentalScore * 300000
      + technicalScore * 200000 + confidenceScore * 100000

\* determineRecommendation testing the AVOID rule before the STRONG_AVOID rule.
determineRecommendationAvoidFirst(marginOfSafety, fundamentalScore, technicalScore, confidenceScore) ==
    IF marginOfSafety >= 350000 /\ fundamentalScore >= 60 THEN "STRONG_BUY"
    ELSE IF marginOfSafety >= MARGIN_OF_SAFETY_BUY /\ fundamentalScore >= 50 THEN "BUY"
    ELSE IF marginOfSafety >= 0 /\ marginOfSafety < MARGIN_OF_SAFETY_BUY THEN "HOLD"
    ELSE IF marginOfSafety < 0 THEN "AVOID"
    ELSE IF marginOfSafety < -PREMIUM_THRESHOLD_AVOID /\ fundamentalScore < 40
    THEN "STRONG_AVOID"
    ELSE "HOLD"

\* A variant whose last rule answers AVOID.
determineRecommendationDefaultAvoid(marginOfSafety, fundamentalScore, technicalScore, confidenceScore) ==
    IF marginOfSafety >= 350000 /\ fundamentalScore >= 60 THEN "STRONG_BUY"
    ELSE IF marginOfSafety >= MARGIN_OF_SAFETY_BUY /\ fundamentalScore >= 50 THEN "BUY"
    ELSE IF marginOfSafety >= 0 /\ marginOfSafety < MARGIN_OF_SAFETY_BUY THEN "HOLD"
    ELSE IF marginOfSafety < -PREMIUM_THRESHOLD_AVOID /\ fundamentalScore < 40
    THEN "STRONG_AVOID"
    ELSE IF marginOfSafety < 0 THEN "AVOID"
    ELSE "AVOID"

determineRecommendation(marginOfSafety, fundamentalScore, technicalScore, confidenceScore) ==
    IF marginOfSafety >= 350000 /\ fundamentalScore >= 60 THEN "STRONG_BUY"
    ELSE IF marginOfSafety >= MARGIN_OF_SAFETY_BUY /\ fundamentalScore >= 50 THEN "BUY"
    ELSE IF marginOfSafety >= 0 /\ marginOfSafety < MARGIN_OF_SAFETY_BUY THEN "HOLD"
    ELSE IF marginOfSafety < -PREMIUM_THRESHOLD_AVOID /\ fundamentalScore < 40
    THEN "STRONG_AVOID"
    ELSE IF marginOfSafety < 0 THEN "AVOID"
    ELSE "HOLD"

-----------------------------------------------------------------------------
(* Fundamental analysis (analysis/fundamental.ts)                          *)
(* A score counts in units of 1/RateScale until Math.round makes it an     *)
(* integer.                                                                 *)

FUNDAMENTAL_WEIGHTS ==
    [roic |-> 200000, revenueGrowth |-> 150000, revenueStability |-> 100000,
     fcfGrowth |-> 150000, fcfConsistency |-> 100000, debtManagement |-> 100000,
     operatingLeverage |-> 50000, margins |-> 100000, dilution |-> 50000]

Score(n) == n * RateScale

\* Math.round: the nearest integer, halves upwards.
MathRound(x) == (x + RateScale \div 2) \div RateScale

\* values[lo] + ... + values[hi], summed by halves.
RECURSIVE SumRange(_, _, _)
SumRange(values, lo, hi) ==
    IF lo > hi THEN 0
    ELSE IF lo = hi THEN values[lo]
    ELSE SumRange(values, lo, (lo + hi) \div 2) + SumRange(values, (lo + hi) \div 2 + 1, hi)

SumSeq(values, n) == SumRange(values, 1, n)

Mean(values) == MulDiv(SumSeq(values, Len(values)), 1, Len(values))

Take(s, n) == SubSeq(s, 1, Min(n, Len(s)))
Reverse(s) == [k \in 1..Len(s) |-> s[Len(s) + 1 - k]]

\* floor(x*y) and floor(base^n) for non-negative dimensionless quantities.
MulFloor(x, y) == (x \div RateScale) * y + QuotRem(x % RateScale, y, RateScale)[1]

RECURSIVE PowFloor(_, _)
PowFloor(base, n) == IF n = 0 THEN RateScale ELSE MulFloor(PowFloor(base, n - 1), base)

\* The least r above lo and up to hi with r^n >= x: Math.pow(x, 1/n) and Math.sqrt.
RECURSIVE RootSearch(_, _, _, _)
RECURSIVE RootStep(_, _, _, _, _)
RootStep(x, n, lo, hi, mid) ==
    IF PowFloor(mid, n) >= x THEN RootSearch(x, n, lo, mid) ELSE RootSearch(x, n, mid, hi)

RootSearch(x, n, lo, hi) ==
    IF hi - lo <= 1 THEN hi ELSE RootStep(x, n, lo, hi, (lo + hi) \div 2)

NthRoot(x, n) == RootSearch(x, n, -1, Max(x, RateScale))

\* Array.prototype.sort with (a, b) => time(b.date) - time(a.date): stable,
\* most recent first.
InsertAt(sorted, x, k) == SubSeq(sorted, 1, k) \o <<x>> \o SubSeq(sorted, k + 1, Len(sorted))

\* A variant that leaves the statements in the order given.
SortByDateDescNone(s) == s

RECURSIVE SortByDateDesc(_)
InsertByDate(sorted, x) ==
    InsertAt(sorted, x, Cardinality({k \in 1..Len(sorted) : sorted[k].date >= x.date}))

SortByDateDesc(s) ==
    IF Len(s) = 0 THEN <<>>
    ELSE InsertByDate(SortByDateDesc(SubSeq(s, 1, Len(s) - 1)), s[Len(s)])

ROICOf(nopat, investedCapital) ==
    IF investedCapital <= 0 THEN 0 ELSE Div(nopat, investedCapital)

calculateROIC(operatingIncome, taxRate, totalEquity, totalDebt, cash) ==
    ROICOf(Mul(operatingIncome, RateScale - taxRate), totalEquity + totalDebt - cash)

calculateCAGR(startValue, endValue, years) ==
    IF startValue <= 0 \/ endValue <= 0 \/ years <= 0 THEN 0
    ELSE NthRoot(Div(endValue, startValue), years) - RateScale

SquareDiffs(values, mean) ==
    [k \in 1..Len(values) |-> Mul(values[k] - mean, values[k] - mean)]

calculateStdDev(values) ==
    IF Len(values) < 2 THEN 0
    ELSE NthRoot(Mean(SquareDiffs(values, Mean(values))), 2)

\* The year-over-year growth rates of values[1..n], a year of non-positive base skipped.
RECURSIVE GrowthRates(_, _)
GrowthRates(values, n) ==
    IF n <= 1 THEN <<>>
    ELSE IF values[n - 1] > 0
    THEN Append(GrowthRates(values, n - 1), Div(values[n] - values[n - 1], values[n - 1]))
    ELSE GrowthRates(values, n - 1)

\* max(0, 100 - |stdDev/mean|*100); a quotient of 1 or more gives 0.
ConsistencyScore(mean, stdDev) ==
    IF mean = 0 THEN 0
    ELSE IF stdDev >= Abs(mean) THEN 0
    ELSE Score(100) - 100 * Div(stdDev, Abs(mean))

ConsistencyOf(growthRates) ==
    IF Len(growthRates) = 0 THEN 0
    ELSE ConsistencyScore(Mean(growthRates), calculateStdDev(growthRates))

calculateGrowthConsistency(values) ==
    IF Len(values) < 3 THEN 0 ELSE ConsistencyOf(GrowthRates(values, Len(values)))

NoMetrics ==
    [roic |-> 0, roicTrend |-> 0, revenueGrowth5Y |-> 0, revenueGrowthStability |-> 0,
     fcfGrowth5Y |-> 0, fcfConsistency |-> 0, debtToFCF |-> 0, operatingLeverage |-> 0,
     netMargin |-> 0, grossMargin |-> 0, shareDilution5Y |-> 0]

taxRate == 250000

ROICAt(sortedIncome, sortedBalance, k) ==
    calculateROIC(sortedIncome[k].operatingIncome, taxRate, sortedBalance[k].totalEquity,
                  sortedBalance[k].totalDebt, sortedBalance[k].cash)

OperatingLeverage(revChange, opIncChange) ==
    IF revChange # 0 THEN Div(opIncChange, revChange) ELSE RateScale

\* The metrics from the sorted statements and the series taken from them.
MetricsOf(sortedIncome, sortedBalance, roic, revenues, fcfs, shares) ==
    [roic |-> roic,
     roicTrend |-> IF Len(sortedIncome) >= 3 /\ Len(sortedBalance) >= 3
                   THEN roic - ROICAt(sortedIncome, sortedBalance, 3)
                   ELSE 0,
     revenueGrowth5Y |-> IF Len(revenues) >= 2
                         THEN calculateCAGR(revenues[1], revenues[Len(revenues)],
                                            Len(revenues) - 1)
                         ELSE 0,
     revenueGrowthStability |-> calculateGrowthConsistency(revenues),
     fcfGrowth5Y |-> IF Len(fcfs) >= 2 /\ fcfs[1] > 0
                     THEN calculateCAGR(fcfs[1], fcfs[Len(fcfs)], Len(fcfs) - 1)
                     ELSE 0,
     fcfConsistency |-> calculateGrowthConsistency(SelectSeq(fcfs, LAMBDA f : f > 0)),
     debtToFCF |-> IF Mean(fcfs) > 0 THEN Div(sortedBalance[1].totalDebt, Mean(fcfs))
                   ELSE Score(99),
     operatingLeverage |-> OperatingLeverage(sortedIncome[1].revenue - sortedIncome[2].revenue,
                                             sortedIncome[1].operatingIncome
                                               - sortedIncome[2].operatingIncome),
     netMargin |-> sortedIncome[1].netIncomeMargin,
     grossMargin |-> sortedIncome[1].grossProfitMargin,
     shareDilution5Y |-> IF Len(shares) >= 2 /\ shares[Len(shares)] > 0
                         THEN Div(shares[1] - shares[Len(shares)], shares[Len(shares)])
                         ELSE 0]

ExtractSorted(sortedIncome, sortedBalance, sortedCashFlow) ==
    MetricsOf(sortedIncome, sortedBalance, ROICAt(sortedIncome, sortedBalance, 1),
              Reverse([k \in 1..Min(5, Len(sortedIncome)) |-> sortedIncome[k].revenue]),
              Reverse([k \in 1..Min(5, Len(sortedCashFlow)) |-> sortedCashFlow[k].freeCashFlow]),
              [k \in 1..Min(5, Len(sortedIncome)) |-> sortedIncome[k].sharesOutstanding])

\* A variant whose result for short statements keeps the default of debtToFCF.
extractWithDefaults(financials) ==
    IF Len(financials.income) < 2 \/ Len(financials.balance) < 2
         \/ Len(financials.cashFlow) < 2
    THEN [NoMetrics EXCEPT !.debtToFCF = Score(99)]
    ELSE ExtractSorted(SortByDateDesc(financials.income), SortByDateDesc(financials.balance),
                       SortByDateDesc(financials.cashFlow))

extractFundamentalMetrics(financials) ==
    IF Len(financials.income) < 2 \/ Len(financials.balance) < 2
         \/ Len(financials.cashFlow) < 2
    THEN NoMetrics
    ELSE ExtractSorted(SortByDateDesc(financials.income), SortByDateDesc(financials.balance),
                       SortByDateDesc(financials.cashFlow))

scoreROIC(roic) ==
    IF roic >= 250000 THEN [score |-> Score(100), assessment |-> "Exceptional ROIC"]
    ELSE IF roic >= 200000 THEN [score |-> Score(85), assessment |-> "Excellent ROIC"]
    ELSE IF roic >= 150000 THEN [score |-> Score(70), assessment |-> "Good ROIC"]
    ELSE IF roic >= 100000 THEN [score |-> Score(50), assessment |-> "Fair ROIC"]
    ELSE IF roic >= 50000 THEN [score |-> Score(30), assessment |-> "Below average ROIC"]
    ELSE [score |-> Score(10), assessment |-> "Poor ROIC"]

scoreRevenueGrowth(growth) ==
    IF growth >= 250000 THEN [score |-> Score(100), assessment |-> "Exceptional growth"]
    ELSE IF growth >= 150000 THEN [score |-> Score(85), assessment |-> "Strong growth"]
    ELSE IF growth >= 100000 THEN [score |-> Score(70), assessment |-> "Good growth"]
    ELSE IF growth >= 50000 THEN [score |-> Score(50), assessment |-> "Moderate growth"]
    ELSE IF growth >= 0 THEN [score |-> Score(30), assessment |-> "Slow growth"]
    ELSE [score |-> Score(10), assessment |-> "Declining revenue"]

scoreDebtManagement(debtToFCF) ==
    IF debtToFCF <= Score(1) THEN [score |-> Score(100), assessment |-> "Minimal debt"]
    ELSE IF debtToFCF <= Score(2) THEN [score |-> Score(85), assessment |-> "Low debt"]
    ELSE IF debtToFCF <= Score(4) THEN [score |-> Score(65), assessment |-> "Moderate debt"]
    ELSE IF debtToFCF <= Score(6) THEN [score |-> Score(40), assessment |-> "High debt"]
    ELSE [score |-> Score(15), assessment |-> "Very high debt"]

scoreDilution(dilution) ==
    IF dilution <= -50000 THEN [score |-> Score(100), assessment |-> "Significant buybacks"]
    ELSE IF dilution <= 0 THEN [score |-> Score(80), assessment |-> "Share buybacks"]
    ELSE IF dilution <= 20000 THEN [score |-> Score(60), assessment |-> "Minimal dilution"]
    ELSE IF dilution <= 50000 THEN [score |-> Score(40), assessment |-> "Moderate dilution"]
    ELSE [score |-> Score(20), assessment |-> "High dilution"]

Factor(name, value, scored, weight) ==
    [name |-> name, value |-> value, score |-> scored.score, weight |-> weight,
     assessment |-> scored.assessment]

FundamentalFactors(metrics) ==
    << Factor("Return on Invested Capital", metrics.roic, scoreROIC(metrics.roic),
              FUNDAMENTAL_WEIGHTS.roic),
       Factor("Revenue Growth (5Y)", metrics.revenueGrowth5Y,
              scoreRevenueGrowth(metrics.revenueGrowth5Y), FUNDAMENTAL_WEIGHTS.revenueGrowth),
       Factor("Revenue Stability", metrics.revenueGrowthStability,
              [score |-> metrics.revenueGrowthStability,
               assessment |-> IF metrics.revenueGrowthStability >= Score(70)
                              THEN "Consistent" ELSE "Variable"],
              FUNDAMENTAL_WEIGHTS.revenueStability),
       Factor("FCF Growth (5Y)", metrics.fcfGrowth5Y,
              scoreRevenueGrowth(metrics.fcfGrowth5Y), FUNDAMENTAL_WEIGHTS.fcfGrowth),
       Factor("FCF Consistency", metrics.fcfConsistency,
              [score |-> metrics.fcfConsistency,
               assessment |-> IF metrics.fcfConsistency >= Score(70)
                              THEN "Reliable cash flows" ELSE "Variable cash flows"],
              FUNDAMENTAL_WEIGHTS.fcfConsistency),
       Factor("Debt Management", metrics.debtToFCF, scoreDebtManagement(metrics.debtToFCF),
              FUNDAMENTAL_WEIGHTS.debtManagement),
       Factor("Profit Margins", metrics.netMargin,
              [score |-> Min(Score(100), metrics.netMargin * 500),
               assessment |-> IF metrics.netMargin >= 150000
                              THEN "Excellent margins" ELSE "Fair margins"],
              FUNDAMENTAL_WEIGHTS.margins),
       Factor("Share Dilution", metrics.shareDilution5Y,
              scoreDilution(metrics.shareDilution5Y), FUNDAMENTAL_WEIGHTS.dilution) >>

RECURSIVE SumWeights(_, _)
SumWeights(factors, n) ==
    IF n = 0 THEN 0 ELSE SumWeights(factors, n - 1) + factors[n].weight

RECURSIVE SumWeightedScores(_, _)
SumWeightedScores(factors, n) ==
    IF n = 0 THEN 0
    ELSE SumWeightedScores(factors, n - 1) + Mul(factors[n].score, factors[n].weight)

FinalScore(weightedScore, totalWeight) ==
    IF totalWeight > 0 THEN MathRound(Div(weightedScore, totalWeight)) ELSE 0

FundamentalScoreOf(factors) ==
    [score |-> FinalScore(SumWeightedScores(factors, Len(factors)),
                          SumWeights(factors, Len(factors))),
     factors |-> factors]

calculateFundamentalScore(financials) ==
    FundamentalScoreOf(FundamentalFactors(extractFundamentalMetrics(financials)))

-----------------------------------------------------------------------------
(* Technical indicators (the technical analysis module)                    *)
(* A price series lists the most recent price first.                       *)

\* The average of the prices there are, with no sentinel for a short history.
calculateSMAOfAny(prices, period) == IF Len(prices) = 0 THEN 0 ELSE MulDiv(SumSeq(prices, Min(period, Len(prices))), 1, Min(period, Len(prices)))

calculateSMA(prices, period) ==
    IF Len(prices) < period THEN 0 ELSE MulDiv(SumSeq(prices, period), 1, period)

\* ema = (price - ema) * multiplier + ema, the running average read once.
EMAUpdate(price, ema, multiplier) ==
    CHOOSE next \in {Mul(price - e, multiplier) + e : e \in {ema}} : TRUE

\* The average after the loop has run from prices[hi] down to prices[lo],
\* the older half of the prices first.
RECURSIVE EMAOver(_, _, _, _, _)
EMAOver(prices, lo, hi, ema, multiplier) ==
    IF lo = hi THEN EMAUpdate(prices[lo], ema, multiplier)
    ELSE CHOOSE next \in {EMAOver(prices, lo, (lo + hi) \div 2, e, multiplier) :
                            e \in {EMAOver(prices, (lo + hi) \div 2 + 1, hi, ema, multiplier)}} : TRUE

\* The average after the loop has run from the oldest price down to prices[j].
EMAFrom(prices, j, multiplier) ==
    IF j >= Len(prices) THEN prices[Len(prices)]
    ELSE EMAOver(prices, j, Len(prices) - 1, prices[Len(prices)], multiplier)

calculateEMA(prices, period) ==
    IF Len(prices) < period THEN 0
    ELSE EMAFrom(prices, Max(1, Len(prices) + 1 - 2 * period),
                 MulDiv(2, RateScale, period + 1))

\* The sums of the gains and of the losses over the first n day-over-day changes.
RECURSIVE GainSum(_, _)
GainSum(prices, n) ==
    IF n = 0 THEN 0
    ELSE GainSum(prices, n - 1) + Max(prices[n] - prices[n + 1], 0)

RECURSIVE LossSum(_, _)
LossSum(prices, n) ==
    IF n = 0 THEN 0
    ELSE LossSum(prices, n - 1) + Max(prices[n + 1] - prices[n], 0)

\* 100 - 100/(1 + avgGain/avgLoss), the two averages over the same period, in
\* one rounding.
RSIOf(gains, losses) ==
    IF losses = 0 THEN Score(100)
    ELSE Score(100) - MulDiv(Score(100), losses, gains + losses)

calculateRSI(prices, period) ==
    IF Len(prices) < period + 1 THEN Score(50)
    ELSE RSIOf(GainSum(prices, period), LossSum(prices, period))

\* The MACD line of the series without its i most recent prices.
MACDLineAt(prices, i) ==
    calculateEMA(SubSeq(prices, i + 1, Len(prices)), 12)
      - calculateEMA(SubSeq(prices, i + 1, Len(prices)), 26)

RECURSIVE MACDLineSum(_, _)
MACDLineSum(prices, n) ==
    IF n = 0 THEN 0 ELSE MACDLineSum(prices, n - 1) + MACDLineAt(prices, n - 1)

\* The signal is the mean of the MACD line, NaN when the line is empty.
MACDHistogram(macd, signal) ==
    IF signal.cls = "finite" THEN Finite(macd - signal.v)
    ELSE IF signal.cls = "infinite" THEN Infinity(-signal.v)
    ELSE NaN

MACDOf(macd, signal) ==
    [macd |-> macd, signal |-> signal, histogram |-> MACDHistogram(macd, signal)]

calculateMACD(prices) ==
    IF Len(prices) < 26
    THEN [macd |-> 0, signal |-> Finite(0), histogram |-> Finite(0)]
    ELSE MACDOf(MACDLineAt(prices, 0),
                FloatDiv(MACDLineSum(prices, Min(Len(prices) - 26, 9)),
                         Min(Len(prices) - 26, 9), 1))

\* A low against its nearest neighbours only.
IsLocalMinOfThree(rp, k) == rp[k] < rp[k - 1] /\ rp[k] < rp[k + 1]

IsLocalMin(rp, k) ==
    rp[k] < rp[k - 1] /\ rp[k] < rp[k + 1] /\ rp[k] < rp[k - 2] /\ rp[k] < rp[k + 2]

IsLocalMax(rp, k) ==
    rp[k] > rp[k - 1] /\ rp[k] > rp[k + 1] /\ rp[k] > rp[k - 2] /\ rp[k] > rp[k + 2]

\* The local minima and maxima among rp[3..k], in the order of the series.
RECURSIVE LocalMins(_, _)
LocalMins(rp, k) ==
    IF k < 3 THEN <<>>
    ELSE LocalMins(rp, k - 1) \o (IF IsLocalMin(rp, k) THEN <<rp[k]>> ELSE <<>>)

RECURSIVE LocalMaxs(_, _)
LocalMaxs(rp, k) ==
    IF k < 3 THEN <<>>
    ELSE LocalMaxs(rp, k - 1) \o (IF IsLocalMax(rp, k) THEN <<rp[k]>> ELSE <<>>)

RECURSIVE MinOf(_, _)
MinOf(values, n) == IF n = 1 THEN values[1] ELSE Min(MinOf(values, n - 1), values[n])

RECURSIVE MaxOf(_, _)
MaxOf(values, n) == IF n = 1 THEN values[1] ELSE Max(MaxOf(values, n - 1), values[n])

SupportResistanceOf(relevantPrices, localMins, localMaxs) ==
    [support |-> IF Len(localMins) > 0 THEN Mean(localMins)
                 ELSE MinOf(relevantPrices, Len(relevantPrices)),
     resistance |-> IF Len(localMaxs) > 0 THEN Mean(localMaxs)
                    ELSE MaxOf(relevantPrices, Len(relevantPrices))]

SupportResistanceIn(relevantPrices) ==
    SupportResistanceOf(relevantPrices,
                        LocalMins(relevantPrices, Len(relevantPrices) - 2),
                        LocalMaxs(relevantPrices, Len(relevantPrices) - 2))

findSupportResistance(prices, lookback) ==
    IF Len(prices) < 5 THEN [support |-> 0, resistance |-> 0]
    ELSE SupportResistanceIn(Take(prices, lookback))

determineTrend(currentPrice, sma50, sma200) ==
    IF sma50 > sma200 /\ currentPrice > sma50 /\ currentPrice > sma200 THEN "bullish"
    ELSE IF ~(sma50 > sma200) /\ ~(currentPrice > sma50) /\ ~(currentPrice > sma200)
    THEN "bearish"
    ELSE "neutral"

IndicatorsOf(currentPrice, sma50, sma200, rsi, macd, levels) ==
    [sma50 |-> sma50, sma200 |-> sma200, rsi |-> rsi, macd |-> macd,
     supportLevel |-> levels.support, resistanceLevel |-> levels.resistance,
     trendDirection |-> determineTrend(currentPrice, sma50, sma200),
     priceVsSma50 |-> IF sma50 > 0 THEN MulDiv(currentPrice - sma50, RateScale, sma50) ELSE 0,
     priceVsSma200 |-> IF sma200 > 0 THEN MulDiv(currentPrice - sma200, RateScale, sma200)
                       ELSE 0]

calculateTechnicalIndicators(prices, currentPrice) ==
    IndicatorsOf(currentPrice, calculateSMA(prices, 50), calculateSMA(prices, 200),
                 calculateRSI(prices, 14), calculateMACD(prices),
                 findSupportResistance(prices, 50))

-----------------------------------------------------------------------------
(* Technical scoring (the technical analysis module)                       *)

TECHNICAL_WEIGHTS ==
    [trend |-> 250000, rsi |-> 200000, macd |-> 200000, sma50 |-> 150000, sma200 |-> 200000]

RSI_THRESHOLDS == [overbought |-> Score(70), oversold |-> Score(30)]

\* The RSI table with its two thresholds left out of the outer bands.
scoreRSIOpen(rsi) == IF rsi < RSI_THRESHOLDS.oversold THEN [score |-> Score(85), signal |-> "bullish"] ELSE IF rsi > RSI_THRESHOLDS.overbought THEN [score |-> Score(25), signal |-> "bearish"] ELSE [score |-> Score(50), signal |-> "neutral"]

scoreRSI(rsi) ==
    IF rsi <= RSI_THRESHOLDS.oversold THEN [score |-> Score(85), signal |-> "bullish"]
    ELSE IF rsi >= RSI_THRESHOLDS.overbought THEN [score |-> Score(25), signal |-> "bearish"]
    ELSE [score |-> Score(50), signal |-> "neutral"]

\* A comparison with NaN is false; one with an infinity goes by its sign.
FloatSign(x) == IF x.cls = "nan" THEN 0 ELSE Sign(x.v)

scoreMACD(macd) ==
    IF FloatSign(macd.histogram) > 0 THEN [score |-> Score(75), signal |-> "bullish"]
    ELSE IF FloatSign(macd.histogram) < 0 THEN [score |-> Score(25), signal |-> "bearish"]
    ELSE [score |-> Score(50), signal |-> "neutral"]

scorePriceVsSMA(percentAbove) ==
    IF percentAbove > 100000 THEN [score |-> Score(70), signal |-> "bullish"]
    ELSE IF percentAbove > 0 THEN [score |-> Score(60), signal |-> "bullish"]
    ELSE IF percentAbove > -50000 THEN [score |-> Score(45), signal |-> "neutral"]
    ELSE IF percentAbove > -100000 THEN [score |-> Score(35), signal |-> "bearish"]
    ELSE [score |-> Score(20), signal |-> "bearish"]

scoreTrend(trend) ==
    IF trend = "bullish" THEN [score |-> Score(80), signal |-> "bullish"]
    ELSE IF trend = "bearish" THEN [score |-> Score(20), signal |-> "bearish"]
    ELSE [score |-> Score(50), signal |-> "neutral"]

\* Number.prototype.toFixed(digits) of x/scale, as the count of its last digit.
ToFixed(x, scale, digits) == MulDiv(x, 10 ^ digits, scale)

\* toFixed of an IEEE value: "Infinity", "-Infinity" and "NaN" print as themselves.
FloatToFixed(x, scale, digits) ==
    IF IsFinite(x) THEN Finite(ToFixed(x.v, scale, digits)) ELSE x

Signal(name, value, scored, weight) ==
    [name |-> name, value |-> value, signal |-> scored.signal, score |-> scored.score,
     weight |-> weight]

TechnicalSignals(indicators) ==
    << Signal("Trend Direction", indicators.trendDirection,
              scoreTrend(indicators.trendDirection), TECHNICAL_WEIGHTS.trend),
       Signal("RSI", ToFixed(indicators.rsi, RateScale, 1), scoreRSI(indicators.rsi),
              TECHNICAL_WEIGHTS.rsi),
       Signal("MACD", FloatToFixed(indicators.macd.histogram, MoneyScale, 2),
              scoreMACD(indicators.macd), TECHNICAL_WEIGHTS.macd),
       Signal("Price vs SMA50", ToFixed(indicators.priceVsSma50 * 100, RateScale, 1),
              scorePriceVsSMA(indicators.priceVsSma50), TECHNICAL_WEIGHTS.sma50),
       Signal("Price vs SMA200", ToFixed(indicators.priceVsSma200 * 100, RateScale, 1),
              scorePriceVsSMA(indicators.priceVsSma200), TECHNICAL_WEIGHTS.sma200) >>

\* The signals as returned carry no score; the scores enter the weighted sum only.
TechnicalScoreOf(scored) ==
    [score |-> MathRound(Div(SumWeightedScores(scored, Len(scored)),
                             SumWeights(scored, Len(scored)))),
     signals |-> [k \in 1..Len(scored) |->
                     [name |-> scored[k].name, value |-> scored[k].value,
                      signal |-> scored[k].signal, weight |-> scored[k].weight]]]

calculateTechnicalScore(indicators) == TechnicalScoreOf(TechnicalSignals(indicators))

-----------------------------------------------------------------------------
(* Earnings-multiple valuation (valuation/earnings-multiple.ts)            *)
(* A price-to-earnings ratio counts in units of 1/RateScale.               *)

\* x || d on numbers: d when x is 0.
OrElse(x, d) == IF x = 0 THEN d ELSE x

\* Array.prototype.sort with (a, b) => a - b.
RECURSIVE SortAscending(_)
InsertAscending(sorted, x) ==
    InsertAt(sorted, x, Cardinality({k \in 1..Len(sorted) : sorted[k] <= x}))

SortAscending(s) ==
    IF Len(s) = 0 THEN <<>>
    ELSE InsertAscending(SortAscending(SubSeq(s, 1, Len(s) - 1)), s[Len(s)])

\* The PE ratios of the first n periods, a period of non-positive EPS skipped.
RECURSIVE PERatios(_, _, _)
PERatios(priceHistory, epsHistory, n) ==
    IF n = 0 THEN <<>>
    ELSE PERatios(priceHistory, epsHistory, n - 1)
           \o (IF epsHistory[n] > 0
               THEN <<MulDiv(priceHistory[n], RateScale, epsHistory[n])>>
               ELSE <<>>)

PEStatistics(trimmed) ==
    IF Len(trimmed) = 0 THEN [low |-> 0, high |-> 0, median |-> 0, average |-> 0]
    ELSE [low |-> trimmed[1], high |-> trimmed[Len(trimmed)],
          median |-> trimmed[(Len(trimmed) \div 2) + 1], average |-> Mean(trimmed)]

\* The sorted ratios without their bottom and top tenth:
\* slice(floor(0.1 * length), ceil(0.9 * length)).
TrimOutliers(sorted) ==
    SubSeq(sorted, (Len(sorted) \div 10) + 1, (9 * Len(sorted) + 9) \div 10)

analyzeHistoricalPE(priceHistory, epsHistory) ==
    PEStatistics(TrimOutliers(SortAscending(
        PERatios(priceHistory, epsHistory, Min(Len(priceHistory), Len(epsHistory))))))

\* Math.min over the positive candidates, then the clamp to [5, 40]; the
\* minimum of no candidate is +Infinity, which the clamp brings to 40.
ConservativePE(positive) ==
    IF Len(positive) = 0 THEN 40 * RateScale
    ELSE Max(5 * RateScale, Min(MinOf(positive, Len(positive)), 40 * RateScale))

selectConservativePE(historicalPELow, historicalPEHigh, historicalPEMedian, growthRate) ==
    ConservativePE(SelectSeq(<<historicalPELow
                                 + MulDiv(historicalPEHigh - historicalPELow, 1, 4),
                               growthRate * 100, historicalPEMedian>>,
                             LAMBDA pe : pe > 0))

EarningsValueOf(eps, forwardEps, historicalPELow, historicalPEHigh, historicalPEMedian, currentPrice, selectedPE, fairValue) ==
    [eps |-> eps, forwardEps |-> forwardEps, historicalPELow |-> historicalPELow,
     historicalPEHigh |-> historicalPEHigh, historicalPEMedian |-> historicalPEMedian,
     selectedPE |-> selectedPE, fairValue |-> fairValue, currentPrice |-> currentPrice,
     upside |-> FloatDiv(fairValue - currentPrice, currentPrice, RateScale)]

EarningsValueAt(eps, forwardEps, historicalPELow, historicalPEHigh, historicalPEMedian, currentPrice, selectedPE) ==
    EarningsValueOf(eps, forwardEps, historicalPELow, historicalPEHigh, historicalPEMedian,
                    currentPrice, selectedPE,
                    Mul(IF forwardEps > 0 THEN forwardEps ELSE eps, selectedPE))

calculateEarningsMultipleValue(eps, forwardEps, historicalPELow, historicalPEHigh, historicalPEMedian, expectedGrowthRate, currentPrice) ==
    IF eps <= 0 /\ forwardEps <= 0
    THEN [eps |-> eps, forwardEps |-> forwardEps, historicalPELow |-> historicalPELow,
          historicalPEHigh |-> historicalPEHigh, historicalPEMedian |-> historicalPEMedian,
          selectedPE |-> 0, fairValue |-> 0, currentPrice |-> currentPrice,
          upside |-> Finite(0)]
    ELSE EarningsValueAt(eps, forwardEps, historicalPELow, historicalPEHigh,
                         historicalPEMedian, currentPrice,
                         selectConservativePE(historicalPELow, historicalPEHigh,
                                              historicalPEMedian, expectedGrowthRate))

-----------------------------------------------------------------------------
(* Stock analysis service: the helpers of analyzeStock                     *)

\* x > c, x >= c and x < c for an IEEE value x: false for NaN.
FloatGT(x, c) == IF x.cls = "finite" THEN x.v > c ELSE x.cls = "infinite" /\ x.v > 0
FloatGE(x, c) == IF x.cls = "finite" THEN x.v >= c ELSE x.cls = "infinite" /\ x.v > 0
FloatLT(x, c) == IF x.cls = "finite" THEN x.v < c ELSE x.cls = "infinite" /\ x.v < 0

\* weightedSum / totalWeight, each term of the sum rounded once.
RECURSIVE SumWeightedValues(_, _, _)
SumWeightedValues(values, n, totalWeight) ==
    IF n = 0 THEN 0
    ELSE SumWeightedValues(values, n - 1, totalWeight)
           + MulDiv(values[n].value, values[n].weight, totalWeight)

WeightedMean(values) ==
    IF Len(values) = 0 THEN 0
    ELSE SumWeightedValues(values, Len(values), SumWeights(values, Len(values)))

DefaultFairValueWeights == [dcf |-> 600000, earnings |-> 400000]

\* A variant in which a value of 0 contributes too.
calculateWeightedFairValueOfAny(dcfValue, earningsValue, weights) ==
    WeightedMean((IF dcfValue >= 0 THEN <<[value |-> dcfValue, weight |-> weights.dcf]>>
                  ELSE <<>>)
                 \o (IF earningsValue >= 0
                     THEN <<[value |-> earningsValue, weight |-> weights.earnings]>>
                     ELSE <<>>))

\* A variant in which every value other than 0 contributes.
calculateWeightedFairValueOfNonZero(dcfValue, earningsValue, weights) ==
    WeightedMean((IF dcfValue # 0 THEN <<[value |-> dcfValue, weight |-> weights.dcf]>>
                  ELSE <<>>)
                 \o (IF earningsValue # 0
                     THEN <<[value |-> earningsValue, weight |-> weights.earnings]>>
                     ELSE <<>>))

calculateWeightedFairValue(dcfValue, earningsValue, weights) ==
    WeightedMean((IF dcfValue > 0 THEN <<[value |-> dcfValue, weight |-> weights.dcf]>>
                  ELSE <<>>)
                 \o (IF earningsValue > 0
                     THEN <<[value |-> earningsValue, weight |-> weights.earnings]>>
                     ELSE <<>>))

calculateBuyZone(fairValue, marginOfSafety) ==
    [low |-> Mul(fairValue, RateScale - marginOfSafety - RateScale \div 10),
     high |-> Mul(fairValue, RateScale - marginOfSafety)]

\* Math.sqrt of an amount x: the least r with r*r >= x.
RECURSIVE SqrtSearch(_, _, _)
SqrtStep(x, lo, hi, mid) ==
    IF mid * mid >= x THEN SqrtSearch(x, lo, mid) ELSE SqrtSearch(x, mid, hi)

SqrtSearch(x, lo, hi) ==
    IF hi - lo <= 1 THEN hi ELSE SqrtStep(x, lo, hi, (lo + hi) \div 2)

MathSqrt(x) == SqrtSearch(x, -1, Min(x, 46340))

GrahamResult(eps, bookValuePerShare, currentPrice, grahamNumber) ==
    [eps |-> eps, bookValuePerShare |-> bookValuePerShare, grahamNumber |-> grahamNumber,
     currentPrice |-> currentPrice,
     upside |-> FloatDiv(grahamNumber - currentPrice, currentPrice, 100 * RateScale),
     isBelowGraham |-> currentPrice < grahamNumber]

\* sqrt(22.5 * eps * bookValuePerShare), the square root of an amount squared.
calculateGrahamNumber(eps, bookValuePerShare, currentPrice) ==
    IF eps <= 0 \/ bookValuePerShare <= 0
    THEN [eps |-> eps, bookValuePerShare |-> bookValuePerShare, grahamNumber |-> 0,
          currentPrice |-> currentPrice, upside |-> Finite(0), isBelowGraham |-> FALSE]
    ELSE GrahamResult(eps, bookValuePerShare, currentPrice,
                      MathSqrt(MulDiv(45 * eps, bookValuePerShare, 2)))

\* Model convergence: do the DCF and the earnings multiple agree?
ConvergenceOfClosed(difference) ==
    IF difference <= 150000 THEN Score(90)
    ELSE IF difference <= 300000 THEN Score(70)
    ELSE IF difference <= 500000 THEN Score(40)
    ELSE Score(20)

ConvergenceOf(difference) ==
    IF difference < 150000 THEN Score(90)
    ELSE IF difference < 300000 THEN Score(70)
    ELSE IF difference < 500000 THEN Score(40)
    ELSE Score(20)

ConvergenceScore(dcfValue, earningsValue) ==
    IF FloatGT(dcfValue, 0) /\ earningsValue > 0
    THEN IF IsFinite(dcfValue)
         THEN ConvergenceOf(MulDiv(Abs(dcfValue.v - earningsValue), RateScale,
                                   Max(dcfValue.v, earningsValue)))
         ELSE Score(20)
    ELSE Score(50)

ConfidenceFactor(name, score, weight, reason) ==
    [name |-> name, score |-> score, weight |-> weight, reason |-> reason]

ConfidenceFactors(yearsOfData, dcfResult, convergenceScore, fundamentalScore) ==
    << ConfidenceFactor("Data Completeness", Min(Score(100), Score(yearsOfData * 10)), 250000,
                        [years |-> yearsOfData, text |-> "years of financial data available"]),
       ConfidenceFactor("Earnings Stability",
                        IF fundamentalScore >= 60 THEN Score(80)
                        ELSE IF fundamentalScore >= 40 THEN Score(50) ELSE Score(20),
                        200000,
                        IF fundamentalScore >= 60 THEN "Stable earnings history"
                        ELSE "Variable earnings"),
       ConfidenceFactor("Model Convergence", convergenceScore, 200000,
                        IF convergenceScore >= Score(70) THEN "Valuation models agree"
                        ELSE "Valuation models diverge"),
       ConfidenceFactor("Margin of Safety",
                        IF FloatGE(dcfResult.marginOfSafety, 250000) THEN Score(90)
                        ELSE IF FloatGE(dcfResult.marginOfSafety, 100000) THEN Score(70)
                        ELSE IF FloatGE(dcfResult.marginOfSafety, 0) THEN Score(50)
                        ELSE Score(30),
                        200000,
                        [percent |-> FloatToFixed(dcfResult.marginOfSafety, RateScale \div 100, 1),
                         text |-> "% margin of safety"]),
       ConfidenceFactor("Volatility Assessment", Score(60), 150000,
                        "Moderate volatility expected") >>

\* The factors as returned carry their scores as plain numbers.
ConfidenceOf(factors) ==
    [score |-> MathRound(Div(SumWeightedScores(factors, Len(factors)),
                             SumWeights(factors, Len(factors)))),
     factors |-> [k \in 1..Len(factors) |->
                     [factors[k] EXCEPT !.score = factors[k].score \div RateScale]]]

calculateConfidence(financials, dcfResult, earningsResult, fundamentalScore) ==
    ConfidenceOf(ConfidenceFactors(
        Min(Len(financials.income), Min(Len(financials.balance), Len(financials.cashFlow))),
        dcfResult,
        ConvergenceScore(dcfResult.intrinsicPrice, earningsResult.fairValue),
        fundamentalScore))

Risk(category, severity, description) ==
    [category |-> category, severity |-> severity, description |-> description]

\* A variant of the debt rule that reports both levels above 2.
DebtRiskBoth(debtToEquity) ==
    (IF FloatGT(debtToEquity, 2 * RateScale)
     THEN <<Risk("financial", "high", "Very high debt-to-equity ratio")>> ELSE <<>>)
    \o (IF FloatGT(debtToEquity, RateScale)
        THEN <<Risk("financial", "medium", "Elevated debt levels")>> ELSE <<>>)

\* The debt rule on financials.balance[0], its ratio an IEEE quotient.
DebtRisk(debtToEquity) ==
    IF FloatGT(debtToEquity, 2 * RateScale)
    THEN <<Risk("financial", "high", "Very high debt-to-equity ratio")>>
    ELSE IF FloatGT(debtToEquity, RateScale)
    THEN <<Risk("financial", "medium", "Elevated debt levels")>>
    ELSE <<>>

identifyRiskFactors(financials, dcfResult, fundamentalScore) ==
    (IF Len(financials.balance) > 0 /\ financials.balance[1].totalDebt # 0
     THEN DebtRisk(FloatDiv(financials.balance[1].totalDebt,
                            financials.balance[1].totalEquity, RateScale))
     ELSE <<>>)
    \o (IF Len(financials.income) >= 2
           /\ financials.income[1].revenue < financials.income[2].revenue
        THEN <<Risk("operational", "medium", "Revenue declined year-over-year")>>
        ELSE <<>>)
    \o (IF Len(financials.cashFlow) > 0 /\ financials.cashFlow[1].freeCashFlow < 0
        THEN <<Risk("financial", "high", "Negative free cash flow")>>
        ELSE <<>>)
    \o (IF FloatLT(dcfResult.marginOfSafety, -200000)
        THEN <<Risk("valuation", "high", "Stock appears significantly overvalued")>>
        ELSE <<>>)
    \o (IF fundamentalScore < 40
        THEN <<Risk("operational", "medium", "Weak fundamental metrics")>>
        ELSE <<>>)

recText ==
    [STRONG_BUY |-> "Significantly Undervalued - Current valuation appears attractive based on analysis.",
     BUY |-> "Undervalued - Analysis suggests potential upside from current levels.",
     HOLD |-> "Fairly Valued - Current price appears to reflect intrinsic value.",
     AVOID |-> "Overvalued - Analysis suggests limited upside from current price.",
     STRONG_AVOID |-> "Significantly Overvalued - Current valuation appears stretched."]

\* The four sentences of the summary; the first carries the upside, in tenths
\* of a percent, when the margin of safety reaches 0.25.
generateSummary(symbol, name, recommendation, fairValue, currentPrice, marginOfSafety, fundamentalScore, technicalScore) ==
    << IF marginOfSafety >= 250000
       THEN [name |-> name, symbol |-> symbol,
             text |-> "appears significantly undervalued with upside potential",
             upside |-> FloatToFixed(FloatDiv(fairValue - currentPrice, currentPrice, RateScale),
                                     RateScale \div 100, 1)]
       ELSE IF marginOfSafety >= 0
       THEN [name |-> name, symbol |-> symbol,
             text |-> "is trading at a reasonable valuation with modest upside"]
       ELSE [name |-> name, symbol |-> symbol,
             text |-> "appears overvalued at current prices"],
       IF fundamentalScore >= 70
       THEN "The company demonstrates excellent fundamental quality with strong cash flows and returns on capital."
       ELSE IF fundamentalScore >= 50
       THEN "Fundamentals are solid with room for improvement in some areas."
       ELSE "Fundamental quality is a concern with weak metrics across several categories.",
       IF technicalScore >= 65
       THEN "Technical indicators are bullish with positive momentum."
       ELSE IF technicalScore >= 40
       THEN "Technical picture is mixed with no strong directional signals."
       ELSE "Technical indicators suggest bearish momentum.",
       [text |-> "Analysis Result", recText |-> recText[recommendation]] >>

\* A Date, the ISO string that JSON.stringify writes for it, and null.
Date(time) == [type |-> "Date", time |-> time]
ISOString(date) == IF date.type = "Date" THEN [type |-> "string", iso |-> date.time] ELSE date
Null == [type |-> "null"]

\* YahooFinanceClient.getQuote: null without a market price, else the quote
\* stamped with the time of the fetch.
getQuote(quote, time) ==
    IF quote = Null \/ quote.price = 0 THEN Null
    ELSE [f \in DOMAIN quote \cup {"timestamp"} |->
             IF f = "timestamp" THEN Date(time) ELSE quote[f]]

\* JSON.parse(JSON.stringify(analysis)): a Date comes back as its ISO string,
\* a non-finite number as null.
JSONNumber(x) == IF IsFinite(x) THEN x ELSE [cls |-> "null", v |-> 0]

JSONRoundTrip(analysis) ==
    [analysis EXCEPT !.analysisDate = ISOString(@),
                     !.quote.timestamp = ISOString(@),
                     !.dcf.intrinsicPrice = JSONNumber(@),
                     !.dcf.upside = JSONNumber(@),
                     !.dcf.marginOfSafety = JSONNumber(@),
                     !.earningsMultiple.upside = JSONNumber(@),
                     !.grahamNumber.upside = JSONNumber(@)]

\* The cache: key -> [value, timestamp, ttl], times in milliseconds, ttl in seconds.
\* String.prototype.toUpperCase on the symbols of the model.
ToUpperCase(symbol) == IF symbol = "acme" THEN "ACME" ELSE symbol

analysisKey(symbol) == <<"analysis", ToUpperCase(symbol)>>
CACHE_TTL == [analysis |-> 12 * 60 * 60]

Expired(row, time) == time - row.timestamp > row.ttl * 1000

\* SQLiteCache.get: the cache after the lookup and the value found, null on a
\* miss; an expired row is deleted.
CacheGet(rows, key, time) ==
    IF key \notin DOMAIN rows THEN [cache |-> rows, value |-> Null]
    ELSE IF Expired(rows[key], time)
    THEN [cache |-> [k \in DOMAIN rows \ {key} |-> rows[k]], value |-> Null]
    ELSE [cache |-> rows, value |-> rows[key].value]

\* SQLiteCache.set: INSERT OR REPLACE of the stringified value.
CacheSet(rows, key, value, time, ttlSeconds) ==
    [k \in DOMAIN rows \cup {key} |->
        IF k = key THEN [value |-> JSONRoundTrip(value), timestamp |-> time, ttl |-> ttlSeconds]
        ELSE rows[k]]

\* SQLiteCache.cleanup: DELETE ... WHERE (now - timestamp) / 1000 > ttl.
CacheCleanupRows(rows, time) ==
    [k \in {r \in DOMAIN rows : ~((time - rows[r].timestamp) \div 1000 > rows[r].ttl)} |->
        rows[k]]

\* analyzeStock after the fetch: the growth estimate from the revenues.
EstimateGrowth(income) ==
    IF Len(income) >= 2 /\ income[Min(2, Len(income) - 1) + 1].revenue > 0
    THEN Min(Max(MulDiv(Div(income[1].revenue - income[Min(2, Len(income) - 1) + 1].revenue,
                            income[Min(2, Len(income) - 1) + 1].revenue), 1, 2),
                 -(RateScale \div 10)),
             3 * (RateScale \div 10))
    ELSE 80000

DCFInputsOf(quote, financials, analystGrowthRate) ==
    [startingFCF |-> IF Len(financials.cashFlow) > 0
                        /\ financials.cashFlow[1].freeCashFlow # 0
                     THEN financials.cashFlow[1].freeCashFlow
                     ELSE Mul(quote.eps * quote.sharesOutstanding, 800000),
     sharesOutstanding |-> OrElse(quote.sharesOutstanding, 1),
     totalDebt |-> IF Len(financials.balance) > 0 THEN financials.balance[1].totalDebt ELSE 0,
     cash |-> IF Len(financials.balance) > 0 THEN financials.balance[1].cash ELSE 0,
     beta |-> OrElse(quote.beta, RateScale),
     riskFreeRate |-> DEFAULT_RISK_FREE_RATE,
     marketReturn |-> MARKET_RETURN,
     analystGrowthRate |-> analystGrowthRate,
     terminalGrowthRate |-> TERMINAL_GROWTH_RATE,
     projectionYears |-> DCF_PROJECTION_YEARS]

ReverseDCFArgs(quote, in) ==
    [currentPrice |-> quote.price, startingFCF |-> in.startingFCF,
     sharesOutstanding |-> in.sharesOutstanding, totalDebt |-> in.totalDebt,
     cash |-> in.cash,
     wacc |-> calculateWACC(OrElse(quote.beta, RateScale), DEFAULT_RISK_FREE_RATE,
                            MARKET_RETURN),
     terminalGrowthRate |-> TERMINAL_GROWTH_RATE]

HistoricalPEOf(financials, historicalPrices) ==
    analyzeHistoricalPE(Take(historicalPrices, Len(financials.income)),
                        [k \in 1..Len(financials.income) |-> financials.income[k].eps])

EarningsMultipleOf(quote, analystGrowthRate, historicalPE) ==
    calculateEarningsMultipleValue(
        quote.eps, OrElse(quote.forwardEps, Mul(quote.eps, RateScale + analystGrowthRate)),
        OrElse(historicalPE.low, 10 * RateScale), OrElse(historicalPE.high, 25 * RateScale),
        OrElse(historicalPE.median, 15 * RateScale), analystGrowthRate, quote.price)

BookValuePerShare(quote, financials) ==
    IF Len(financials.balance) > 0 /\ financials.balance[1].totalEquity # 0
    THEN MulDiv(financials.balance[1].totalEquity, 1, OrElse(quote.sharesOutstanding, 1))
    ELSE 0

\* The compiled StockAnalysis.
AnalysisCompiled(c, dcfResult, earningsMultipleResult, reverseDCFResult, grahamNumberResult, technicalScore, fundamentalScore, confidenceScore, fairValue, upside, recommendation) ==
    [symbol |-> c.symbol, name |-> c.quote.name,
     sector |-> IF c.profile = Null THEN "Unknown" ELSE c.profile.sector,
     industry |-> IF c.profile = Null THEN "Unknown" ELSE c.profile.industry,
     analysisDate |-> Date(c.now),
     quote |-> c.quote, financials |-> c.financials,
     dcf |-> dcfResult, earningsMultiple |-> earningsMultipleResult,
     reverseDCF |-> [impliedGrowthRate |-> reverseDCFResult.impliedGrowthRate,
                     sustainableYears |-> 10,
                     isReasonable |-> reverseDCFResult.isReasonable,
                     assessment |-> reverseDCFResult.assessment],
     grahamNumber |-> grahamNumberResult,
     technicalScore |-> technicalScore, fundamentalScore |-> fundamentalScore,
     confidenceScore |-> confidenceScore,
     fairValue |-> fairValue, currentPrice |-> c.quote.price,
     upside |-> upside, marginOfSafety |-> upside,
     buyZone |-> calculateBuyZone(fairValue, MARGIN_OF_SAFETY_BUY),
     riskFactors |-> identifyRiskFactors(c.financials, dcfResult, fundamentalScore.score),
     recommendation |-> recommendation,
     summary |-> generateSummary(c.symbol, c.quote.name, recommendation, fairValue,
                                 c.quote.price, upside, fundamentalScore.score,
                                 technicalScore.score)]

\* The recommendation from the margin of safety and the three scores.
AnalysisRecommended(c, dcfResult, earningsMultipleResult, reverseDCFResult, grahamNumberResult, technicalScore, fundamentalScore, confidenceScore, fairValue, upside) ==
    AnalysisCompiled(c, dcfResult, earningsMultipleResult, reverseDCFResult,
                     grahamNumberResult, technicalScore, fundamentalScore, confidenceScore,
                     fairValue, upside,
                     determineRecommendation(upside, fundamentalScore.score,
                                             technicalScore.score, confidenceScore.score))

\* The weighted fair value and its upside over the price, which getQuote has
\* found not to be zero.
AnalysisValued(c, dcfResult, earningsMultipleResult, reverseDCFResult, grahamNumberResult, technicalScore, fundamentalScore, confidenceScore, fairValue) ==
    AnalysisRecommended(c, dcfResult, earningsMultipleResult, reverseDCFResult,
                        grahamNumberResult, technicalScore, fundamentalScore, confidenceScore,
                        fairValue, MulDiv(fairValue - c.quote.price, RateScale, c.quote.price))

AnalysisScored(c, dcfResult, earningsMultipleResult, reverseDCFResult, technicalScore, fundamentalScore) ==
    AnalysisValued(c, dcfResult, earningsMultipleResult, reverseDCFResult,
                   calculateGrahamNumber(c.quote.eps, BookValuePerShare(c.quote, c.financials),
                                         c.quote.price),
                   technicalScore, fundamentalScore,
                   calculateConfidence(c.financials, dcfResult, earningsMultipleResult,
                                       fundamentalScore.score),
                   calculateWeightedFairValue(dcfResult.intrinsicPrice.v,
                                              earningsMultipleResult.fairValue,
                                              DefaultFairValueWeights))

\* An error thrown by a valuation is caught at the end of analyzeStock, which
\* then returns null.
AnalysisModelled(c, analystGrowthRate, dcf, reverse) ==
    IF dcf.kind = "throw" \/ reverse.kind = "throw" THEN Null
    ELSE AnalysisScored(c, dcf.value,
                        EarningsMultipleOf(c.quote, analystGrowthRate,
                                           HistoricalPEOf(c.financials, c.historicalPrices)),
                        reverse.value,
                        calculateTechnicalScore(
                            calculateTechnicalIndicators(c.historicalPrices, c.quote.price)),
                        calculateFundamentalScore(c.financials))

AnalysisFrom(c, analystGrowthRate, in) ==
    AnalysisModelled(c, analystGrowthRate, calculateDCF(in, c.quote.price),
                     calculateReverseDCF(ReverseDCFArgs(c.quote, in)))

AnalysisGrown(c, analystGrowthRate) ==
    AnalysisFrom(c, analystGrowthRate, DCFInputsOf(c.quote, c.financials, analystGrowthRate))

\* analyzeStock between the fetch and the cache write: null without a quote,
\* else the analysis of the fetched data, dated at the time of the call.
AnalysisOf(symbol, quote, financials, profile, historicalPrices, time) ==
    IF quote = Null THEN Null
    ELSE AnalysisGrown([symbol |-> symbol, quote |-> quote, financials |-> financials,
                        profile |-> profile, historicalPrices |-> historicalPrices,
                        now |-> time],
                       EstimateGrowth(financials.income))

-----------------------------------------------------------------------------
(* The DCF engine called on bounded inputs                                 *)

MaxBetaStep == 4
MaxRateStep == 3
MaxGrowthStep == 4
MaxYear == 20
MaxPriceStep == 3

Tenth == RateScale \div 10
BetaValues == {(k - 1) * 9 * Tenth : k \in 0..MaxBetaStep}
RiskFreeValues == {DEFAULT_RISK_FREE_RATE, 2 * DEFAULT_RISK_FREE_RATE}
MarketReturnValues == {k * Tenth - (Tenth \div 2) : k \in 0..MaxRateStep} \cup {MARKET_RETURN}
GrowthValues == {(k - 1) * Tenth : k \in 0..MaxGrowthStep}
TerminalGrowthValues == {TERMINAL_GROWTH_RATE, 3 * TERMINAL_GROWTH_RATE}
DiscountRateValues == {TERMINAL_GROWTH_RATE - 5000, TERMINAL_GROWTH_RATE, 72500, 94500}
FCFValues == {100 * MoneyScale, -50 * MoneyScale}
ShareValues == {-100, 0, 100}
PriceValues == {0, 25 * MoneyScale}
\* Market prices from far below to far above what any growth in the bracket gives.
ReversePriceValues == {MoneyScale} \cup {5 * (5 ^ k) * MoneyScale : k \in 0..MaxPriceStep}

DCFInputValues ==
    [startingFCF : FCFValues, sharesOutstanding : ShareValues,
     totalDebt : {50 * MoneyScale}, cash : {20 * MoneyScale},
     beta : BetaValues, riskFreeRate : {DEFAULT_RISK_FREE_RATE},
     marketReturn : {MARKET_RETURN}, analystGrowthRate : GrowthValues,
     terminalGrowthRate : TerminalGrowthValues, projectionYears : {0, 1, 7, DCF_PROJECTION_YEARS}]

Idle == locals = <<>> /\ result = NoResult /\ now = 0 /\ cache = <<>>

InitDCFModule ==
    /\ pc = "call"
    /\ \/ /\ fn = "calculateWACC"
          /\ args \in [beta : BetaValues, riskFreeRate : RiskFreeValues,
                       marketReturn : MarketReturnValues]
          /\ Idle
       \/ /\ fn = "calculateGrowthRate"
          /\ args \in [year : 1..MaxYear,
                       analystGrowthRate : GrowthValues \cup TerminalGrowthValues,
                       terminalGrowthRate : TerminalGrowthValues]
          /\ Idle
       \/ /\ fn = "calculateTerminalValue"
          /\ args \in [finalFCF : FCFValues, terminalGrowthRate : TerminalGrowthValues,
                       discountRate : DiscountRateValues]
          /\ Idle
       \/ /\ fn = "calculateDCF"
          /\ args \in [inputs : DCFInputValues, currentPrice : PriceValues]
          /\ Idle
       \/ /\ fn = "calculateReverseDCF"
          /\ args \in [currentPrice : ReversePriceValues, startingFCF : FCFValues,
                       sharesOutstanding : {100}, totalDebt : {50 * MoneyScale},
                       cash : {20 * MoneyScale}, wacc : DiscountRateValues,
                       terminalGrowthRate : {TERMINAL_GROWTH_RATE}]
          /\ locals = ReverseInit
          /\ result = NoResult /\ now = 0 /\ cache = <<>>
       \/ /\ fn = "generateSensitivityTable"
          /\ args \in [inputs : {in \in DCFInputValues :
                                    /\ in.sharesOutstanding = 100
                                    /\ in.projectionYears = DCF_PROJECTION_YEARS
                                    /\ in.analystGrowthRate \in {0, Tenth}},
                       waccRange : {DefaultWaccRange}, growthRange : {DefaultGrowthRange}]
          /\ Idle

CallWACC ==
    /\ fn = "calculateWACC" /\ pc = "call"
    /\ result' = Return(calculateWACC(args.beta, args.riskFreeRate, args.marketReturn))
    /\ pc' = "done"
    /\ UNCHANGED <<fn, args, locals, now, cache>>

CallGrowthRate ==
    /\ fn = "calculateGrowthRate" /\ pc = "call"
    /\ result' = Return(calculateGrowthRate(args.year, args.analystGrowthRate,
                                            args.terminalGrowthRate))
    /\ pc' = "done"
    /\ UNCHANGED <<fn, args, locals, now, cache>>

CallTerminalValue ==
    /\ fn = "calculateTerminalValue" /\ pc = "call"
    /\ result' = calculateTerminalValue(args.finalFCF, args.terminalGrowthRate,
                                        args.discountRate)
    /\ pc' = "done"
    /\ UNCHANGED <<fn, args, locals, now, cache>>

CallDCF ==
    /\ fn = "calculateDCF" /\ pc = "call"
    /\ result' = calculateDCF(args.inputs, args.currentPrice)
    /\ pc' = "done"
    /\ UNCHANGED <<fn, args, locals, now, cache>>

\* One pass of calculateReverseDCF's loop, or the loop's end after maxIterations.
ReverseDCFLoop ==
    /\ fn = "calculateReverseDCF" /\ pc = "call"
    /\ IF locals.i >= maxIterations
       THEN pc' = "assess" /\ UNCHANGED <<locals, result>>
       ELSE \E s \in {ReverseIterate(args, locals)} :
                /\ locals' = s.locals
                /\ pc' = IF s.step = "throw" THEN "done"
                         ELSE IF s.step = "break" THEN "assess" ELSE "call"
                /\ result' = IF s.step = "throw" THEN s.error ELSE result
    /\ UNCHANGED <<fn, args, now, cache>>

ReverseDCFReturn ==
    /\ fn = "calculateReverseDCF" /\ pc = "assess"
    /\ result' = Return(ReverseAssess(locals.impliedGrowthRate))
    /\ pc' = "done"
    /\ UNCHANGED <<fn, args, locals, now, cache>>

CallSensitivityTable ==
    /\ fn = "generateSensitivityTable" /\ pc = "call"
    /\ result' = generateSensitivityTable(args.inputs, args.waccRange, args.growthRange)
    /\ pc' = "done"
    /\ UNCHANGED <<fn, args, locals, now, cache>>

Init == InitDCFModule

Next ==
    \/ CallWACC
    \/ CallGrowthRate
    \/ CallTerminalValue
    \/ CallDCF
    \/ ReverseDCFLoop
    \/ ReverseDCFReturn
    \/ CallSensitivityTable

Spec == Init /\ [][Next]_vars

-----------------------------------------------------------------------------
(* determineRecommendation called on bounded inputs                        *)

MaxMarginStep == 8

\* Margins of safety on both sides of every threshold, and just below each.
MarginValues ==
    {k * (RateScale \div 20) - d : k \in -MaxMarginStep..MaxMarginStep, d \in {0, 1}}
FundamentalScoreValues == {-42, 0, 39, 40, 49, 50, 59, 60, 70, 100}
TechnicalScoreValues == {22, 50, 77}
ConfidenceScoreValues == {20, 90}

InitRecommendation ==
    /\ fn = "determineRecommendation" /\ pc = "call"
    /\ args \in [marginOfSafety : MarginValues, fundamentalScore : FundamentalScoreValues,
                 technicalScore : TechnicalScoreValues,
                 confidenceScore : ConfidenceScoreValues]
    /\ Idle

CallRecommendation ==
    /\ fn = "determineRecommendation" /\ pc = "call"
    /\ result' = Return(determineRecommendation(args.marginOfSafety, args.fundamentalScore,
                                                args.technicalScore, args.confidenceScore))
    /\ pc' = "done"
    /\ UNCHANGED <<fn, args, locals, now, cache>>

NextRecommendation == CallRecommendation

SpecRecommendation == InitRecommendation /\ [][NextRecommendation]_vars

-----------------------------------------------------------------------------
(* The scoring functions called on bounded inputs                          *)

MaxPeriods == 3

\* A fiscal year of a company: healthy, mediocre, loss-making, growing.
HealthyYear ==
    [income |-> [revenue |-> 1000 * MoneyScale, operatingIncome |-> 250 * MoneyScale,
                 netIncomeMargin |-> 200000, grossProfitMargin |-> 500000,
                 eps |-> 2000, sharesOutstanding |-> 100],
     balance |-> [totalEquity |-> 1000 * MoneyScale, totalDebt |-> 200 * MoneyScale,
                  cash |-> 100 * MoneyScale],
     cashFlow |-> [freeCashFlow |-> 150 * MoneyScale]]

MediocreYear ==
    [income |-> [revenue |-> 800 * MoneyScale, operatingIncome |-> 80 * MoneyScale,
                 netIncomeMargin |-> 50000, grossProfitMargin |-> 400000,
                 eps |-> 364, sharesOutstanding |-> 110],
     balance |-> [totalEquity |-> 600 * MoneyScale, totalDebt |-> 500 * MoneyScale,
                  cash |-> 50 * MoneyScale],
     cashFlow |-> [freeCashFlow |-> 60 * MoneyScale]]

LossYear ==
    [income |-> [revenue |-> 500 * MoneyScale, operatingIncome |-> -300 * MoneyScale,
                 netIncomeMargin |-> -RateScale, grossProfitMargin |-> 200000,
                 eps |-> -3333, sharesOutstanding |-> 150],
     balance |-> [totalEquity |-> -900 * MoneyScale, totalDebt |-> 600 * MoneyScale,
                  cash |-> 100 * MoneyScale],
     cashFlow |-> [freeCashFlow |-> -200 * MoneyScale]]

GrowingYear ==
    [income |-> [revenue |-> 1250 * MoneyScale, operatingIncome |-> 400 * MoneyScale,
                 netIncomeMargin |-> 250000, grossProfitMargin |-> 600000,
                 eps |-> 3289, sharesOutstanding |-> 95],
     balance |-> [totalEquity |-> 1500 * MoneyScale, totalDebt |-> 0,
                  cash |-> 400 * MoneyScale],
     cashFlow |-> [freeCashFlow |-> 300 * MoneyScale]]

YearValues == {HealthyYear, MediocreYear, LossYear, GrowingYear}

\* The statements of the years, year k dated dates[k].
Dated(statement, date) ==
    [f \in DOMAIN statement \cup {"date"} |-> IF f = "date" THEN date ELSE statement[f]]

FinancialsOf(years, dates) ==
    [income |-> [k \in 1..Len(years) |-> Dated(years[k].income, dates[k])],
     balance |-> [k \in 1..Len(years) |-> Dated(years[k].balance, dates[k])],
     cashFlow |-> [k \in 1..Len(years) |-> Dated(years[k].cashFlow, dates[k])]]

\* Statements of 0..MaxPeriods years, listed oldest first or most recent first.
FinancialsValues ==
    UNION { { FinancialsOf(years, [k \in 1..n |-> k]) : years \in [1..n -> YearValues] }
              \cup { FinancialsOf(years, [k \in 1..n |-> n + 1 - k]) :
                       years \in [1..n -> YearValues] }
            : n \in 0..MaxPeriods }

IndicatorValues ==
    [trendDirection : {"bullish", "bearish", "neutral"},
     rsi : {Score(20), Score(30), Score(50), Score(70), Score(90)},
     macd : [macd : {0}, signal : {Finite(0)},
             histogram : {Finite(-MoneyScale), Finite(0), Finite(MoneyScale), NaN}],
     priceVsSma50 : {-200000, -100000, -50000, 0, 50000, 200000},
     priceVsSma200 : {-200000, -100000, -50000, 0, 50000, 200000}]

InitScores ==
    /\ pc = "call"
    /\ \/ fn = "calculateFundamentalScore" /\ args \in [financials : FinancialsValues]
       \/ fn = "calculateTechnicalScore" /\ args \in [indicators : IndicatorValues]
    /\ Idle

CallFundamentalScore ==
    /\ fn = "calculateFundamentalScore" /\ pc = "call"
    /\ result' = Return(calculateFundamentalScore(args.financials))
    /\ pc' = "done"
    /\ UNCHANGED <<fn, args, locals, now, cache>>

CallTechnicalScore ==
    /\ fn = "calculateTechnicalScore" /\ pc = "call"
    /\ result' = Return(calculateTechnicalScore(args.indicators))
    /\ pc' = "done"
    /\ UNCHANGED <<fn, args, locals, now, cache>>

NextScores == CallFundamentalScore \/ CallTechnicalScore

SpecScores == InitScores /\ [][NextScores]_vars

-----------------------------------------------------------------------------
(* analyzeStock called twice on the same market data                       *)

MaxTicks == 3
MaxCalls == 2
TickMillis == 6 * 60 * 60 * 1000

\* What the market data service holds for the symbol: a quote or none, the
\* annual statements most recent first or oldest first, a profile or none,
\* and the daily closes most recent first.
QuoteValues ==
    { [symbol |-> "ACME", name |-> "Acme Corp", price |-> 4 * MoneyScale,
       sharesOutstanding |-> 100, beta |-> 0, eps |-> 2000, forwardEps |-> 0],
      [symbol |-> "ACME", name |-> "Acme Corp", price |-> 60 * MoneyScale,
       sharesOutstanding |-> 0, beta |-> 900000, eps |-> -1000, forwardEps |-> 0],
      [symbol |-> "ACME", name |-> "Acme Corp", price |-> 0,
       sharesOutstanding |-> 100, beta |-> 1200000, eps |-> 2000, forwardEps |-> 2200],
      [symbol |-> "ACME", name |-> "Acme Corp", price |-> 12 * MoneyScale,
       sharesOutstanding |-> 3000, beta |-> 1200000, eps |-> 2000, forwardEps |-> 2200] }

AnalysisFinancialsValues ==
    { FinancialsOf(<<>>, <<>>),
      FinancialsOf(<<GrowingYear, HealthyYear, MediocreYear>>, <<3, 2, 1>>),
      FinancialsOf(<<LossYear, HealthyYear, GrowingYear>>, <<1, 2, 3>>) }

ProfileValues == {Null, [sector |-> "Technology", industry |-> "Software"]}

PriceHistoryValues ==
    { <<>>, <<24 * MoneyScale, 26 * MoneyScale, 23 * MoneyScale, 22 * MoneyScale,
              25 * MoneyScale, 21 * MoneyScale>> }

InitAnalysis ==
    /\ fn = "analyzeStock" /\ pc = "call"
    /\ args \in [symbol : {"ACME", "acme"}, quote : QuoteValues \cup {Null},
                 financials : AnalysisFinancialsValues, profile : ProfileValues,
                 historicalPrices : PriceHistoryValues]
    /\ args.profile = Null => args.historicalPrices = <<>>
    /\ args.symbol = "acme" => args.profile = Null
    /\ locals = [returned |-> <<>>, analysis |-> Null]
    /\ result = NoResult /\ now = 0 /\ cache = <<>>

\* The call returns value: the next call starts, until MaxCalls have returned.
AnalyzeReturn(value) ==
    /\ result' = Return(value)
    /\ locals' = [returned |-> Append(locals.returned, value), analysis |-> Null]
    /\ pc' = IF Len(locals.returned) + 1 < MaxCalls THEN "call" ELSE "done"

\* analyzeStock up to the cache lookup: a hit returns the cached value.
AnalyzeCacheGet ==
    /\ fn = "analyzeStock" /\ pc = "call"
    /\ \E got \in {CacheGet(cache, analysisKey(args.symbol), now)} :
          /\ cache' = got.cache
          /\ IF got.value # Null
             THEN AnalyzeReturn(got.value)
             ELSE pc' = "fetch" /\ UNCHANGED <<locals, result>>
    /\ UNCHANGED <<fn, args, now>>

\* analyzeStock from the fetch to the compiled analysis: null without a
\* quote or after a thrown error.
AnalyzeFetch ==
    /\ fn = "analyzeStock" /\ pc = "fetch"
    /\ \E analysis \in {AnalysisOf(args.symbol, getQuote(args.quote, now), args.financials,
                                   args.profile, args.historicalPrices, now)} :
          IF analysis = Null
          THEN AnalyzeReturn(Null)
          ELSE /\ locals' = [locals EXCEPT !.analysis = analysis]
               /\ pc' = "store"
               /\ UNCHANGED result
    /\ UNCHANGED <<fn, args, now, cache>>

\* analyzeStock from the cache write to its return.
AnalyzeCacheSet ==
    /\ fn = "analyzeStock" /\ pc = "store"
    /\ cache' = CacheSet(cache, analysisKey(args.symbol), locals.analysis, now,
                         CACHE_TTL.analysis)
    /\ AnalyzeReturn(locals.analysis)
    /\ UNCHANGED <<fn, args, now>>

\* The clock advances between and during the calls.
Tick ==
    /\ fn = "analyzeStock" /\ pc # "done"
    /\ now < MaxTicks * TickMillis
    /\ now' = now + TickMillis
    /\ UNCHANGED <<fn, pc, args, locals, result, cache>>

\* The periodic cleanup of the cache manager.
CacheCleanup ==
    /\ fn = "analyzeStock" /\ pc # "done"
    /\ DOMAIN cache # {}
    /\ cache' = CacheCleanupRows(cache, now)
    /\ UNCHANGED <<fn, pc, args, locals, result, now>>

NextAnalysis ==
    \/ AnalyzeCacheGet
    \/ AnalyzeFetch
    \/ AnalyzeCacheSet
    \/ Tick
    \/ CacheCleanup

SpecAnalysis == InitAnalysis /\ [][NextAnalysis]_vars

-----------------------------------------------------------------------------
(* The technical indicators called on bounded price series                 *)

MaxSeriesLen == 5
MaxRSIPeriod == 3

\* Three price levels; every series of up to MaxSeriesLen prices over them.
PriceLevelValues == {20 * MoneyScale, 21 * MoneyScale, 22 * MoneyScale}
ShortSeriesValues == UNION {[1..n -> PriceLevelValues] : n \in 0..MaxSeriesLen}

\* Longer histories around the lengths the indicators ask for: an uneven
\* series with local lows and highs, a flat one and a falling one.
HistoryLengths == {8, 14, 15, 16, 25, 26, 27, 49, 50, 51, 60, 199, 200, 201}
UnevenSeries(n) == [k \in 1..n |-> (20 + ((k * 7) % 5)) * MoneyScale]
FlatSeries(n) == [k \in 1..n |-> 21 * MoneyScale]
FallingSeries(n) == [k \in 1..n |-> (20 + k \div 20) * MoneyScale]
LongSeriesValues ==
    UNION {{UnevenSeries(n), FlatSeries(n), FallingSeries(n)} : n \in HistoryLengths}

\* Two local lows, and two local highs, of different heights; and a peak on
\* a low plateau followed by a dip on a high plateau.
ClusterSeriesValues ==
    { <<22, 22, 20, 22, 22, 21, 22, 22>> , <<20, 20, 22, 20, 20, 21, 20, 20>>,
      <<21, 22, 20, 22, 23, 21, 20, 19, 20, 21>>,
      <<20, 20, 21, 20, 20, 24, 24, 23, 24, 24>> }

SeriesValues ==
    ShortSeriesValues \cup LongSeriesValues
      \cup {[k \in 1..Len(s) |-> s[k] * MoneyScale] : s \in ClusterSeriesValues}

InitTechnical ==
    /\ pc = "call"
    /\ \/ fn = "calculateSMA" /\ args \in [prices : SeriesValues, period : {2, 50, 200}]
       \/ fn = "calculateRSI"
            /\ args \in [prices : SeriesValues, period : (1..MaxRSIPeriod) \cup {14}]
       \/ fn = "calculateMACD" /\ args \in [prices : SeriesValues]
       \/ fn = "findSupportResistance"
            /\ args \in [prices : SeriesValues, lookback : {5, 7, 50}]
       \/ fn = "determineTrend"
            /\ args \in [currentPrice : PriceLevelValues \cup {0},
                         sma50 : PriceLevelValues \cup {0},
                         sma200 : PriceLevelValues \cup {0}]
       \/ fn = "calculateTechnicalIndicators"
            /\ args \in [prices : SeriesValues, currentPrice : {0, 21 * MoneyScale}]
    /\ Idle

CallSMA ==
    /\ fn = "calculateSMA" /\ pc = "call"
    /\ result' = Return(calculateSMA(args.prices, args.period))
    /\ pc' = "done"
    /\ UNCHANGED <<fn, args, locals, now, cache>>

CallRSI ==
    /\ fn = "calculateRSI" /\ pc = "call"
    /\ result' = Return(calculateRSI(args.prices, args.period))
    /\ pc' = "done"
    /\ UNCHANGED <<fn, args, locals, now, cache>>

CallMACD ==
    /\ fn = "calculateMACD" /\ pc = "call"
    /\ result' = Return(calculateMACD(args.prices))
    /\ pc' = "done"
    /\ UNCHANGED <<fn, args, locals, now, cache>>

CallSupportResistance ==
    /\ fn = "findSupportResistance" /\ pc = "call"
    /\ result' = Return(findSupportResistance(args.prices, args.lookback))
    /\ pc' = "done"
    /\ UNCHANGED <<fn, args, locals, now, cache>>

CallTrend ==
    /\ fn = "determineTrend" /\ pc = "call"
    /\ result' = Return(determineTrend(args.currentPrice, args.sma50, args.sma200))
    /\ pc' = "done"
    /\ UNCHANGED <<fn, args, locals, now, cache>>

CallTechnicalIndicators ==
    /\ fn = "calculateTechnicalIndicators" /\ pc = "call"
    /\ result' = Return(calculateTechnicalIndicators(args.prices, args.currentPrice))
    /\ pc' = "done"
    /\ UNCHANGED <<fn, args, locals, now, cache>>

NextTechnical ==
    \/ CallSMA
    \/ CallRSI
    \/ CallMACD
    \/ CallSupportResistance
    \/ CallTrend
    \/ CallTechnicalIndicators

SpecTechnical == InitTechnical /\ [][NextTechnical]_vars

-----------------------------------------------------------------------------
(* Calls of extractFundamentalMetrics on statements in any order           *)

\* The orders of n elements.
Orders(n) == {p \in [1..n -> 1..n] : \A j, k \in 1..n : p[j] = p[k] => j = k}

Reordered(s, p) == [k \in 1..Len(s) |-> s[p[k]]]

\* Companies over three fiscal years, oldest year first.
HistoryValues ==
    {<<MediocreYear, HealthyYear, GrowingYear>>, <<GrowingYear, HealthyYear, LossYear>>,
     <<LossYear, MediocreYear, HealthyYear>>, <<HealthyYear, HealthyYear, HealthyYear>>}

OldestFirst(n) == [k \in 1..n |-> k]
LatestFirst(n) == [k \in 1..n |-> n + 1 - k]

\* The statements of a company: each series in its own order, cut to its own
\* length.
StatementsOf(years, orders, lengths) ==
    [income |-> SubSeq(Reordered(FinancialsOf(years, OldestFirst(Len(years))).income,
                                 orders[1]), 1, lengths[1]),
     balance |-> SubSeq(Reordered(FinancialsOf(years, OldestFirst(Len(years))).balance,
                                  orders[2]), 1, lengths[2]),
     cashFlow |-> SubSeq(Reordered(FinancialsOf(years, OldestFirst(Len(years))).cashFlow,
                                   orders[3]), 1, lengths[3])]

\* Series of unequal lengths, short and empty ones among them.
UnevenStatements ==
    UNION { { StatementsOf(years, [k \in 1..3 |-> order], lengths) :
                order \in {OldestFirst(Len(years)), LatestFirst(Len(years))},
                lengths \in [1..3 -> 0..Len(years)] }
            : years \in HistoryValues }

\* Series of two or more periods, each in every order.
ShuffledStatements ==
    UNION { { StatementsOf(years, orders, [k \in 1..3 |-> n]) :
                orders \in [1..3 -> Orders(Len(years))], n \in 2..Len(years) }
            : years \in HistoryValues }

StatementsValues == UnevenStatements \cup ShuffledStatements

InitMetrics ==
    /\ pc = "call"
    /\ fn \in {"extractFundamentalMetrics", "calculateFundamentalScore"}
    /\ args \in [financials : StatementsValues]
    /\ Idle

\* The sorted copies the function works on; the arrays passed in stay as they are.
SortedCopies(financials) ==
    [sortedIncome |-> SortByDateDesc(financials.income),
     sortedBalance |-> SortByDateDesc(financials.balance),
     sortedCashFlow |-> SortByDateDesc(financials.cashFlow)]

CallExtractMetrics ==
    /\ fn = "extractFundamentalMetrics" /\ pc = "call"
    /\ locals' = IF Len(args.financials.income) < 2 \/ Len(args.financials.balance) < 2
                      \/ Len(args.financials.cashFlow) < 2
                 THEN locals
                 ELSE SortedCopies(args.financials)
    /\ result' = Return(extractFundamentalMetrics(args.financials))
    /\ pc' = "done"
    /\ UNCHANGED <<fn, args, now, cache>>

NextMetrics == CallExtractMetrics \/ CallFundamentalScore

SpecMetrics == InitMetrics /\ [][NextMetrics]_vars

-----------------------------------------------------------------------------
(* Calls of calculateWeightedFairValue and calculateConfidence             *)

MaxYearsOfData == 11

\* Fair values of a model: none (0 and below), a thousandth, and amounts.
FairValueValues ==
    {-50 * MoneyScale, -1, 0, 1, 30 * MoneyScale, 100 * MoneyScale, 250 * MoneyScale}

\* n periods of statements.
PeriodsOf(n) == [k \in 1..n |-> HealthyYear]

\* Statements whose shortest series has n periods.
StatementsOfYears(n) ==
    {[income |-> FinancialsOf(PeriodsOf(lengths[1]), OldestFirst(lengths[1])).income,
      balance |-> FinancialsOf(PeriodsOf(lengths[2]), OldestFirst(lengths[2])).balance,
      cashFlow |-> FinancialsOf(PeriodsOf(lengths[3]), OldestFirst(lengths[3])).cashFlow] :
        lengths \in {<<n, n, n>>, <<n + 1, n, n + 2>>, <<n + 2, n + 1, n>>}}

YearsOfDataValues == {0, 1, 9, 10, MaxYearsOfData}

\* The fields of a DCF result that calculateConfidence reads, for an intrinsic
\* price and the price of the quote.
DCFResultOf(intrinsicPrice, currentPrice) ==
    [intrinsicPrice |-> intrinsicPrice, currentPrice |-> currentPrice,
     marginOfSafety |-> Upside(intrinsicPrice, currentPrice)]

\* Intrinsic prices on both sides of each margin-of-safety tier at a price of
\* 100, and those that are no number.
IntrinsicPriceValues ==
    {Finite(v) : v \in {-10 * MoneyScale, 0, 50 * MoneyScale, 100 * MoneyScale - 1,
                        100 * MoneyScale, 110 * MoneyScale - 1, 110 * MoneyScale,
                        125 * MoneyScale - 1, 125 * MoneyScale, 200 * MoneyScale}}
      \cup {Infinity(1), Infinity(-1), NaN}

\* Fair values of the earnings multiple on both sides of each convergence tier
\* at an intrinsic price of 100.
EarningsFairValues ==
    {-5 * MoneyScale, 0, 30 * MoneyScale, 50 * MoneyScale, 50 * MoneyScale + 1,
     70 * MoneyScale, 70 * MoneyScale + 1, 85 * MoneyScale, 85 * MoneyScale + 1,
     100 * MoneyScale}

InitValuation ==
    /\ pc = "call"
    /\ \/ /\ fn = "calculateWeightedFairValue"
          /\ args \in [dcfValue : FairValueValues, earningsValue : FairValueValues]
       \/ /\ fn = "calculateConfidence"
          /\ args \in [financials : UNION {StatementsOfYears(n) : n \in YearsOfDataValues},
                       dcfResult : {DCFResultOf(p, q) : p \in IntrinsicPriceValues,
                                                        q \in {0, 100 * MoneyScale}},
                       earningsResult : [fairValue : EarningsFairValues],
                       fundamentalScore : {39, 40, 59, 60}]
    /\ Idle

CallWeightedFairValue ==
    /\ fn = "calculateWeightedFairValue" /\ pc = "call"
    /\ result' = Return(calculateWeightedFairValue(args.dcfValue, args.earningsValue,
                                                   DefaultFairValueWeights))
    /\ pc' = "done"
    /\ UNCHANGED <<fn, args, locals, now, cache>>

CallConfidence ==
    /\ fn = "calculateConfidence" /\ pc = "call"
    /\ result' = Return(calculateConfidence(args.financials, args.dcfResult,
                                            args.earningsResult, args.fundamentalScore))
    /\ pc' = "done"
    /\ UNCHANGED <<fn, args, locals, now, cache>>

NextValuation == CallWeightedFairValue \/ CallConfidence

SpecValuation == InitValuation /\ [][NextValuation]_vars

-----------------------------------------------------------------------------
(* Calls of identifyRiskFactors                                            *)

\* Debt and equity of a balance sheet: ratios at 1 and 2 and just above them,
\* no debt, no equity, negative equity.
DebtEquityValues ==
    {<<0, 1000 * MoneyScale>>, <<1000 * MoneyScale, 1000 * MoneyScale>>,
     <<1000 * MoneyScale + 1, 1000 * MoneyScale>>, <<2000 * MoneyScale, 1000 * MoneyScale>>,
     <<2000 * MoneyScale + 1, 1000 * MoneyScale>>, <<500 * MoneyScale, 0>>,
     <<3000 * MoneyScale, -1000 * MoneyScale>>}

\* The statements with the debt and equity of the first balance sheet listed.
WithDebtEquity(financials, de) ==
    IF Len(financials.balance) = 0 THEN financials
    ELSE [financials EXCEPT !.balance[1].totalDebt = de[1], !.balance[1].totalEquity = de[2]]

RiskStatementsValues ==
    {WithDebtEquity(f, de) : f \in FinancialsValues, de \in DebtEquityValues}

\* Intrinsic prices at a price of 100: margins of safety on both sides of -0.20.
RiskIntrinsicPriceValues ==
    {Finite(80 * MoneyScale - 1), Finite(80 * MoneyScale), Finite(200 * MoneyScale), NaN}

InitRisk ==
    /\ pc = "call"
    /\ fn = "identifyRiskFactors"
    /\ args \in [financials : RiskStatementsValues,
                 dcfResult : {DCFResultOf(p, 100 * MoneyScale) : p \in RiskIntrinsicPriceValues},
                 fundamentalScore : {39, 40}]
    /\ Idle

CallRiskFactors ==
    /\ fn = "identifyRiskFactors" /\ pc = "call"
    /\ result' = Return(identifyRiskFactors(args.financials, args.dcfResult,
                                            args.fundamentalScore))
    /\ pc' = "done"
    /\ UNCHANGED <<fn, args, locals, now, cache>>

NextRisk == CallRiskFactors

SpecRisk == InitRisk /\ [][NextRisk]_vars

-----------------------------------------------------------------------------
(* Properties of the DCF engine                                            *)

Done(f) == fn = f /\ pc = "done"
WaccOf(in) == calculateWACC(in.beta, in.riskFreeRate, in.marketReturn)
TerminalSpreadError ==
    Throw("Error", "Discount rate must be greater than terminal growth rate")
GordonValue(finalFCF, terminalGrowthRate, discountRate) ==
    MulDiv(MulDiv(finalFCF, RateScale + terminalGrowthRate, RateScale),
           RateScale, discountRate - terminalGrowthRate)

C5_AsStated ==
    Done("calculateDCF") =>
        /\ result.kind = "return" =>
              /\ IsFinite(result.value.intrinsicPrice)
              /\ IsFinite(result.value.upside)
              /\ IsFinite(result.value.marginOfSafety)
        /\ args.inputs.sharesOutstanding <= 0 \/ args.currentPrice = 0 =>
              result.kind = "throw" /\ result.name = "DomainError"

\* C6 as stated: when a calculateDCF call made by generateSensitivityTable
\* throws, generateSensitivityTable throws too.
C6_AsStated ==
    Done("generateSensitivityTable") =>
        \A w \in 1..Len(args.waccRange) : \A g \in 1..Len(args.growthRange) :
            calculateDCF(SensitivityInputs(args.inputs,
                                           WaccOf(args.inputs) + args.waccRange[w],
                                           args.inputs.analystGrowthRate + args.growthRange[g]),
                         0).kind = "throw"
            => result.kind = "throw"

\* C7.  A DCFResult r of calculateDCF(in, currentPrice) satisfies the roll-up
\* equations: one projection per year, fcf[t] = fcf[t-1]*(1+g(t)) from
\* startingFCF, presentValue(t) = fcf[t]*discountFactor(t), terminalValuePV =
\* terminalValue*discountFactor(projectionYears), enterpriseValue = sum of the
\* present values + terminalValuePV, equityValue = enterpriseValue - totalDebt
\* + cash, marginOfSafety = upside = (intrinsicPrice - currentPrice)/currentPrice.
DCFEquations(in, currentPrice, r) ==
    /\ Len(r.projections) = in.projectionYears
    /\ \A t \in 1..Len(r.projections) :
          /\ r.projections[t].year = t
          /\ r.projections[t].growthRate =
                calculateGrowthRate(t, in.analystGrowthRate, in.terminalGrowthRate)
          /\ r.projections[t].fcf =
                MulDiv(IF t = 1 THEN in.startingFCF ELSE r.projections[t - 1].fcf,
                       RateScale + r.projections[t].growthRate, RateScale)
          /\ r.projections[t].discountFactor = calculateDiscountFactor(t, r.wacc)
          /\ r.projections[t].presentValue =
                MulDiv(r.projections[t].fcf, r.projections[t].discountFactor, RateScale)
    /\ r.terminalValuePV =
          MulDiv(r.terminalValue, calculateDiscountFactor(in.projectionYears, r.wacc),
                 RateScale)
    /\ r.enterpriseValue =
          SumPresentValue(r.projections, in.projectionYears) + r.terminalValuePV
    /\ r.equityValue = r.enterpriseValue - in.totalDebt + in.cash
    /\ r.intrinsicPrice = FloatDiv(r.equityValue, in.sharesOutstanding, 1)
    /\ r.upside = Upside(r.intrinsicPrice, currentPrice)
    /\ r.marginOfSafety = r.upside

C7_RollUp ==
    Done("calculateDCF") =>
        /\ WaccOf(args.inputs) > args.inputs.terminalGrowthRate
             /\ args.inputs.projectionYears >= 1
           => result.kind = "return"
        /\ result.kind = "return" =>
              DCFEquations(args.inputs, args.currentPrice, result.value)

C7_Witness ==
    /\ Done("calculateDCF")
    /\ result.kind = "return"
    /\ args.inputs.projectionYears = DCF_PROJECTION_YEARS
    /\ args.inputs.sharesOutstanding > 0 /\ args.currentPrice > 0
    /\ result.value.enterpriseValue > result.value.terminalValuePV
    /\ result.value.terminalValuePV > 0
    /\ result.value.marginOfSafety.v # 0

\* C8 (as amended).  calculateGrowthRate(year, a, t) is a for years 1..5,
\* max(a - (a - t)*(year - 5)/10, t) for years 6..15 and t from year 16 on; so
\* g(5) = a and g(15) = g(16) = t when a >= t, and when a > t the rate never
\* rises from one year to the next.
GrowthSchedule(year, a, t) ==
    IF year <= 5 THEN a
    ELSE IF year >= 16 THEN t
    ELSE Max(a - ((a - t) * (year - 5)) \div 10, t)

C8_GrowthSchedule ==
    Done("calculateGrowthRate") =>
        /\ result = Return(GrowthSchedule(args.year, args.analystGrowthRate,
                                          args.terminalGrowthRate))
        /\ args.year = 5 => result.value = args.analystGrowthRate
        /\ args.year = 16 => result.value = args.terminalGrowthRate
        /\ args.year = 15 /\ args.analystGrowthRate >= args.terminalGrowthRate =>
              result.value = args.terminalGrowthRate
        /\ args.analystGrowthRate > args.terminalGrowthRate =>
              calculateGrowthRate(args.year + 1, args.analystGrowthRate,
                                  args.terminalGrowthRate) <= result.value

C8_Witness ==
    /\ Done("calculateGrowthRate")
    /\ args.year \in 6..14
    /\ args.analystGrowthRate < args.terminalGrowthRate
    /\ result.value = args.terminalGrowthRate

\* C8 as stated: in years 6..15 the rate is a - (a - t)*(year - 5)/10, unfloored.
C8_AsStated ==
    Done("calculateGrowthRate") /\ args.year \in 6..15 =>
        result.value = args.analystGrowthRate
                         - ((args.analystGrowthRate - args.terminalGrowthRate)
                              * (args.year - 5)) \div 10

\* C9.  calculateWACC returns clamp(riskFreeRate + clamp(beta, 0.5, 3.0) *
\* (marketReturn - riskFreeRate), 0.05, 0.20), and the discount rate of every
\* DCFResult lies in [0.05, 0.20].
Clamp(x, lo, hi) == IF x < lo THEN lo ELSE IF x > hi THEN hi ELSE x

C9_WaccClamped ==
    /\ Done("calculateWACC") =>
          /\ result.value =
                Clamp(args.riskFreeRate
                        + MulDiv(Clamp(args.beta, RateScale \div 2, 3 * RateScale),
                                 args.marketReturn - args.riskFreeRate, RateScale),
                      RateScale \div 20, RateScale \div 5)
          /\ result.value >= RateScale \div 20
          /\ result.value <= RateScale \div 5
    /\ Done("calculateDCF") /\ result.kind = "return" =>
          /\ result.value.wacc >= RateScale \div 20
          /\ result.value.wacc <= RateScale \div 5

C9_Witness ==
    /\ Done("calculateWACC")
    /\ args.beta < 0
    /\ args.marketReturn < args.riskFreeRate
    /\ result.value = RateScale \div 20

\* C10.  The DCFInputs that run the forward DCF at growth rate g with the
\* discount rate and the balance sheet of a reverse-DCF call a.
ForwardInputs(a, g) ==
    [startingFCF |-> a.startingFCF, sharesOutstanding |-> a.sharesOutstanding,
     totalDebt |-> a.totalDebt, cash |-> a.cash,
     beta |-> Div(a.wacc - DEFAULT_RISK_FREE_RATE, MARKET_RETURN - DEFAULT_RISK_FREE_RATE),
     riskFreeRate |-> DEFAULT_RISK_FREE_RATE, marketReturn |-> MARKET_RETURN,
     analystGrowthRate |-> g, terminalGrowthRate |-> a.terminalGrowthRate,
     projectionYears |-> DCF_PROJECTION_YEARS]

ReproducesTarget(a, forward) ==
    /\ forward.kind = "return"
    /\ forward.value.wacc = a.wacc
    /\ Abs(forward.value.enterpriseValue - ReverseTargetEV(a))
          <= MulDiv(Abs(ReverseTargetEV(a)), tolerance, RateScale)

\* C10 (as amended).  When calculateReverseDCF leaves its loop through the
\* tolerance test, before maxIterations passes, the forward DCF at
\* analystGrowthRate = impliedGrowthRate and the same WACC reproduces the
\* target enterprise value price*shares + debt - cash within 1e-4 of it.
C10_LeftInverse ==
    Done("calculateReverseDCF") /\ result.kind = "return" /\ locals.i < maxIterations =>
        ReproducesTarget(args, calculateDCF(ForwardInputs(args, result.value.impliedGrowthRate),
                                            args.currentPrice))

C10_Witness ==
    /\ Done("calculateReverseDCF")
    /\ result.kind = "return"
    /\ locals.i > 5 /\ locals.i < maxIterations
    /\ result.value.impliedGrowthRate > ReverseInit.lowGrowth
    /\ result.value.impliedGrowthRate < ReverseInit.highGrowth

\* C10 as stated: every impliedGrowthRate that calculateReverseDCF returns
\* reproduces the target value within 1e-4.
C10_AsStated ==
    Done("calculateReverseDCF") /\ result.kind = "return" =>
        ReproducesTarget(args, calculateDCF(ForwardInputs(args, result.value.impliedGrowthRate),
                                            args.currentPrice))

-----------------------------------------------------------------------------
(* Properties of the recommendation and of the scores                      *)

Recommendations == {"STRONG_BUY", "BUY", "HOLD", "AVOID", "STRONG_AVOID"}

\* The rules of the recommendation in their order, each with its outcome.
RecommendationRules(m, f) ==
    << [when |-> m >= 350000 /\ f >= 60, then |-> "STRONG_BUY"],
       [when |-> m >= 250000 /\ f >= 50, then |-> "BUY"],
       [when |-> 0 <= m /\ m < 250000, then |-> "HOLD"],
       [when |-> m < -200000 /\ f < 40, then |-> "STRONG_AVOID"],
       [when |-> m < 0, then |-> "AVOID"],
       [when |-> TRUE, then |-> "HOLD"] >>

FirstMatch(rules) ==
    rules[CHOOSE k \in 1..Len(rules) :
            rules[k].when /\ \A j \in 1..(k - 1) : ~rules[j].when].then

\* C1.  determineRecommendation returns the outcome of the first rule that
\* matches, in the order STRONG_BUY, BUY, HOLD (0 <= margin < 0.25),
\* STRONG_AVOID, AVOID, HOLD; the outcome is one of the five recommendations
\* and is the same for every technicalScore and confidenceScore.
C1_FirstRuleWins ==
    Done("determineRecommendation") =>
        /\ result.value =
              FirstMatch(RecommendationRules(args.marginOfSafety, args.fundamentalScore))
        /\ result.value \in Recommendations
        /\ \A t \in TechnicalScoreValues : \A c \in ConfidenceScoreValues :
              determineRecommendation(args.marginOfSafety, args.fundamentalScore, t, c)
                = result.value
        /\ args.marginOfSafety = 400000 /\ args.fundamentalScore = 70 =>
              result.value = "STRONG_BUY"

C1_Witness ==
    /\ Done("determineRecommendation")
    /\ args.marginOfSafety = 400000 /\ args.fundamentalScore = 70
    /\ args.technicalScore = 22 /\ args.confidenceScore = 20
    /\ result.value = "STRONG_BUY"

\* C2 as stated: the score of calculateFundamentalScore and the score of
\* calculateTechnicalScore are integers in [0, 100].
C2_AsStated ==
    /\ Done("calculateFundamentalScore") => result.value.score \in 0..100
    /\ Done("calculateTechnicalScore") => result.value.score \in 0..100

\* An analysis as its JSON text shows it, without the time at which its quote
\* was fetched.
Serialized(analysis) ==
    IF analysis = Null THEN Null
    ELSE [JSONRoundTrip(analysis) EXCEPT !.quote.timestamp = Null]

\* C3 as stated: two runs of analyzeStock on the same quote, statements and
\* price series return identical structures, whatever the clock and the cache.
C3_AsStated ==
    fn = "analyzeStock" /\ Len(locals.returned) = MaxCalls =>
        Serialized(locals.returned[1]) = Serialized(locals.returned[2])

-----------------------------------------------------------------------------
(* Properties of the assessment of calculateReverseDCF                     *)

\* The classes of the assessment whose name says aggressive or optimistic.
AggressiveOrOptimistic == {"extremely aggressive", "very optimistic", "reasonably optimistic"}

\* The class that the thresholds 0.30, 0.20, 0.10 and 0 give a growth rate,
\* the first match taken.
ThresholdClass(g) ==
    IF g > 300000 THEN "extremely aggressive"
    ELSE IF g > 200000 THEN "very optimistic"
    ELSE IF g > 100000 THEN "reasonably optimistic"
    ELSE IF g > 0 THEN "conservative"
    ELSE "pessimistic"

\* C11 (as amended).  calculateReverseDCF classifies the implied growth rate g
\* it returns by the first matching threshold (g > 0.30 extremely aggressive,
\* g > 0.20 very optimistic, g > 0.10 reasonably optimistic, g > 0
\* conservative, else pessimistic), and isReasonable is false exactly for the
\* two classes above 0.20, extremely aggressive and very optimistic; it is
\* true for reasonably optimistic, conservative and pessimistic.
C11_Assessment ==
    Done("calculateReverseDCF") /\ result.kind = "return" =>
        /\ result.value.assessment.class = ThresholdClass(result.value.impliedGrowthRate)
        /\ result.value.isReasonable
             = (result.value.assessment.class \notin {"extremely aggressive", "very optimistic"})

\* A call that returns a rate between 0.10 and 0.20, reasonably optimistic
\* and reasonable.
C11_Witness ==
    /\ Done("calculateReverseDCF") /\ result.kind = "return"
    /\ result.value.impliedGrowthRate > 100000
    /\ result.value.impliedGrowthRate <= 200000
    /\ result.value.assessment.class = "reasonably optimistic"
    /\ result.value.isReasonable

\* C11 as stated: isReasonable is false for every class named aggressive or
\* optimistic and true for the others.
C11_AsStated ==
    Done("calculateReverseDCF") /\ result.kind = "return" =>
        /\ result.value.assessment.class = ThresholdClass(result.value.impliedGrowthRate)
        /\ result.value.isReasonable
             = (result.value.assessment.class \notin AggressiveOrOptimistic)


-----------------------------------------------------------------------------
(* Properties of the technical indicators                                  *)

\* The gains and the losses among the most recent period day-over-day changes.
RecentGains(prices, period) ==
    SumSeq([k \in 1..period |-> Max(prices[k] - prices[k + 1], 0)], period)
RecentLosses(prices, period) ==
    SumSeq([k \in 1..period |-> Max(prices[k + 1] - prices[k], 0)], period)

\* C12 as stated: on at least period+1 prices calculateRSI returns a value in
\* [0, 100], equal to 100 - 100/(1 + avgGain/avgLoss) over the most recent
\* period changes, and returns 100 if and only if avgLoss = 0 and avgGain > 0.
C12_AsStated ==
    Done("calculateRSI") /\ Len(args.prices) >= args.period + 1 =>
        /\ result.kind = "return"
        /\ result.value \in 0..Score(100)
        /\ RecentLosses(args.prices, args.period) > 0 =>
              result.value = Score(100)
                 - MulDiv(Score(100), RecentLosses(args.prices, args.period),
                          RecentGains(args.prices, args.period)
                            + RecentLosses(args.prices, args.period))
        /\ result.value = Score(100)
             <=> /\ RecentLosses(args.prices, args.period) = 0
                 /\ RecentGains(args.prices, args.period) > 0

\* C13.  calculateTechnicalIndicators returns for every price series, the
\* empty one included, and a history too short gives the sentinels: SMA 0 on
\* fewer than period prices, RSI 50 on fewer than period+1, a MACD of zeros on
\* fewer than 26, support and resistance 0 on fewer than 5, and a price-to-SMA
\* ratio of 0 when the SMA is 0.  The functions it calls give the same when
\* called alone.
C13_Sentinels ==
    /\ Done("calculateTechnicalIndicators") =>
          /\ result.kind = "return"
          /\ Len(args.prices) < 50 => result.value.sma50 = 0
          /\ Len(args.prices) < 200 => result.value.sma200 = 0
          /\ Len(args.prices) < 15 => result.value.rsi = Score(50)
          /\ Len(args.prices) < 26 =>
                result.value.macd = [macd |-> 0, signal |-> Finite(0), histogram |-> Finite(0)]
          /\ Len(args.prices) < 5 =>
                result.value.supportLevel = 0 /\ result.value.resistanceLevel = 0
          /\ result.value.sma50 = 0 => result.value.priceVsSma50 = 0
          /\ result.value.sma200 = 0 => result.value.priceVsSma200 = 0
    /\ Done("calculateSMA") /\ Len(args.prices) < args.period =>
          result = Return(0)
    /\ Done("calculateRSI") /\ Len(args.prices) < args.period + 1 =>
          result = Return(Score(50))
    /\ Done("calculateMACD") /\ Len(args.prices) < 26 =>
          result = Return([macd |-> 0, signal |-> Finite(0), histogram |-> Finite(0)])
    /\ Done("findSupportResistance") /\ Len(args.prices) < 5 =>
          result = Return([support |-> 0, resistance |-> 0])

\* A history of 27 prices: long enough for RSI, MACD and the levels, too
\* short for both moving averages.
C13_Witness ==
    /\ Done("calculateTechnicalIndicators") /\ Len(args.prices) = 27
    /\ result.value.sma50 = 0 /\ result.value.priceVsSma50 = 0
    /\ result.value.sma200 = 0 /\ result.value.priceVsSma200 = 0
    /\ result.value.rsi # Score(50)
    /\ result.value.supportLevel > 0
    /\ args.currentPrice > 0

\* C14 as stated: determineTrend is bullish iff sma50 > sma200, price > sma50
\* and price > sma200; bearish iff sma50 < sma200, price < sma50 and price <
\* sma200; neutral otherwise, ties included.
C14_AsStated ==
    Done("determineTrend") =>
        /\ result.value \in {"bullish", "bearish", "neutral"}
        /\ result.value = "bullish"
             <=> /\ args.sma50 > args.sma200
                 /\ args.currentPrice > args.sma50
                 /\ args.currentPrice > args.sma200
        /\ result.value = "bearish"
             <=> /\ args.sma50 < args.sma200
                 /\ args.currentPrice < args.sma50
                 /\ args.currentPrice < args.sma200

\* The window of findSupportResistance and the places in it that lie
\* strictly below, or strictly above, their two neighbours on each side.
WindowOf(prices, lookback) == SubSeq(prices, 1, Min(lookback, Len(prices)))
LowsOf(w) == {k \in 3..(Len(w) - 2) : \A d \in {-2, -1, 1, 2} : w[k] < w[k + d]}
HighsOf(w) == {k \in 3..(Len(w) - 2) : \A d \in {-2, -1, 1, 2} : w[k] > w[k + d]}
MeanAt(w, places) ==
    MulDiv(SumSeq([k \in 1..Len(w) |-> IF k \in places THEN w[k] ELSE 0], Len(w)),
           1, Cardinality(places))
LowestOf(w) == CHOOSE m \in {w[k] : k \in 1..Len(w)} : \A k \in 1..Len(w) : m <= w[k]
HighestOf(w) == CHOOSE m \in {w[k] : k \in 1..Len(w)} : \A k \in 1..Len(w) : m >= w[k]

-----------------------------------------------------------------------------
(* Properties of the two scores                                            *)

\* The weights of the two scores, in hundredths, in the order of the factors.
TechnicalWeightsStated == <<25, 20, 20, 15, 20>>
FundamentalFactorsStated ==
    << [name |-> "Return on Invested Capital", weight |-> 20],
       [name |-> "Revenue Growth (5Y)", weight |-> 15],
       [name |-> "Revenue Stability", weight |-> 10],
       [name |-> "FCF Growth (5Y)", weight |-> 15],
       [name |-> "FCF Consistency", weight |-> 10],
       [name |-> "Debt Management", weight |-> 10],
       [name |-> "Profit Margins", weight |-> 10],
       [name |-> "Share Dilution", weight |-> 5] >>

\* The average of the scores under the weights, normalised by their sum.
NormalisedAverage(scores, weights) ==
    SumSeq([k \in 1..Len(scores) |->
               MulDiv(scores[k], weights[k], SumSeq(weights, Len(weights)))],
           Len(scores))

\* An integer is the rounding of x when it lies within a half of it, up to
\* the last digits of the arithmetic.
IsRounded(n, x) == Abs(Score(n) - x) <= RateScale \div 2 + 10

\* The sub-scores of the technical score.
TechnicalSubScores(indicators) ==
    << scoreTrend(indicators.trendDirection).score,
       IF indicators.rsi <= Score(30) THEN Score(85)
       ELSE IF indicators.rsi >= Score(70) THEN Score(25) ELSE Score(50),
       scoreMACD(indicators.macd).score,
       scorePriceVsSMA(indicators.priceVsSma50).score,
       scorePriceVsSMA(indicators.priceVsSma200).score >>

\* C16.  The technical score is the rounded normalised average of the trend,
\* RSI, MACD, SMA50 and SMA200 sub-scores under the weights 0.25, 0.20, 0.20,
\* 0.15, 0.20, the RSI sub-score 85/bullish at RSI <= 30, 25/bearish at RSI >=
\* 70 and 50/neutral between.  The fundamental score is the rounded normalised
\* average of eight factors under the weights 0.20, 0.15, 0.10, 0.15, 0.10,
\* 0.10, 0.10, 0.05, the margin factor scored min(100, netMargin*500); no
\* factor stands for operatingLeverage.
C16_WeightedScores ==
    /\ Done("calculateTechnicalScore") =>
          /\ IsRounded(result.value.score,
                       NormalisedAverage(TechnicalSubScores(args.indicators),
                                         TechnicalWeightsStated))
          /\ result.value.signals[2].signal
               = IF args.indicators.rsi <= Score(30) THEN "bullish"
                 ELSE IF args.indicators.rsi >= Score(70) THEN "bearish" ELSE "neutral"
          /\ \A k \in 1..5 :
                result.value.signals[k].weight * 100 = TechnicalWeightsStated[k] * RateScale
    /\ Done("calculateFundamentalScore") =>
          /\ Len(result.value.factors) = 8
          /\ \A k \in 1..8 :
                /\ result.value.factors[k].name = FundamentalFactorsStated[k].name
                /\ result.value.factors[k].weight * 100
                     = FundamentalFactorsStated[k].weight * RateScale
          /\ result.value.factors[7].score
               = Min(Score(100), 500 * result.value.factors[7].value)
          /\ IsRounded(result.value.score,
                       NormalisedAverage([k \in 1..8 |-> result.value.factors[k].score],
                                         [k \in 1..8 |-> FundamentalFactorsStated[k].weight]))

\* A fundamental score over three periods whose margin factor is below its
\* cap, and the score strictly inside its range.
C16_Witness ==
    /\ Done("calculateFundamentalScore")
    /\ Len(args.financials.income) = 3
    /\ result.value.factors[7].score > 0
    /\ result.value.factors[7].score < Score(100)
    /\ result.value.score > 0 /\ result.value.score < 100

-----------------------------------------------------------------------------
(* Properties of extractFundamentalMetrics                                 *)

MetricFields ==
    {"roic", "roicTrend", "revenueGrowth5Y", "revenueGrowthStability", "fcfGrowth5Y",
     "fcfConsistency", "debtToFCF", "operatingLeverage", "netMargin", "grossMargin",
     "shareDilution5Y"}

\* Statements of which one series at least has fewer than two periods.
IsShort(financials) ==
    \/ Len(financials.income) < 2
    \/ Len(financials.balance) < 2
    \/ Len(financials.cashFlow) < 2

\* C17: extractFundamentalMetrics returns on every input; when the income, the
\* balance or the cash flow series has fewer than two periods, empty series
\* included, every field of the metrics it returns is 0, and
\* calculateFundamentalScore on such statements returns a score, an integer of
\* 0..100.
C17_ShortStatements ==
    /\ Done("extractFundamentalMetrics") =>
         /\ result.kind = "return"
         /\ DOMAIN result.value = MetricFields
         /\ IsShort(args.financials) => \A f \in MetricFields : result.value[f] = 0
    /\ Done("calculateFundamentalScore") /\ IsShort(args.financials) =>
         /\ result.kind = "return"
         /\ result.value.score \in 0..100

\* Three income statements and no balance sheet: all metrics are 0.
C17_Witness ==
    /\ Done("extractFundamentalMetrics")
    /\ Len(args.financials.income) = 3
    /\ Len(args.financials.balance) = 0
    /\ Len(args.financials.cashFlow) = 3
    /\ result = Return(NoMetrics)

DistinctDates(s) == \A j, k \in 1..Len(s) : s[j].date = s[k].date => j = k

MostRecentFirst(s) == \A j, k \in 1..Len(s) : j < k => s[j].date > s[k].date

SameElements(s, t) ==
    /\ Len(s) = Len(t)
    /\ \A k \in 1..Len(s) : Cardinality({j \in 1..Len(s) : s[j] = s[k]})
                              = Cardinality({j \in 1..Len(t) : t[j] = s[k]})

\* The periods of a series listed most recent first.
ByDate(s) == CHOOSE t \in {Reordered(s, p) : p \in Orders(Len(s))} : MostRecentFirst(t)

\* The metrics returned are those of the same periods listed most recent first:
\* the calls that pass the same periods in different orders all return the same
\* metrics.
SameInEveryOrder ==
    Done("extractFundamentalMetrics")
      /\ DistinctDates(args.financials.income)
      /\ DistinctDates(args.financials.balance)
      /\ DistinctDates(args.financials.cashFlow) =>
        result.value = extractFundamentalMetrics([income |-> ByDate(args.financials.income),
                                                  balance |-> ByDate(args.financials.balance),
                                                  cashFlow |-> ByDate(args.financials.cashFlow)])

\* The series the metrics are read from hold the periods passed in, most recent
\* first.
SortedBeforeUse ==
    Done("extractFundamentalMetrics") /\ ~IsShort(args.financials) =>
        /\ SameElements(locals.sortedIncome, args.financials.income)
        /\ SameElements(locals.sortedBalance, args.financials.balance)
        /\ SameElements(locals.sortedCashFlow, args.financials.cashFlow)
        /\ MostRecentFirst(locals.sortedIncome)
        /\ MostRecentFirst(locals.sortedBalance)
        /\ MostRecentFirst(locals.sortedCashFlow)
        /\ result.value = ExtractSorted(locals.sortedIncome, locals.sortedBalance,
                                        locals.sortedCashFlow)

\* C18: extractFundamentalMetrics works on copies of the three series sorted by
\* date, most recent first; for periods with distinct dates its result is the
\* same for every order of the income, balance and cash flow arrays passed in,
\* and the call leaves the three arrays as they were, the same elements in the
\* same order.
C18_OrderAndInputs ==
    /\ [](SameInEveryOrder /\ SortedBeforeUse)
    /\ [][fn = "extractFundamentalMetrics" => args' = args]_vars

\* Statements passed neither oldest first nor most recent first, with different
\* years in different places of the three series.
C18_Witness ==
    /\ Done("extractFundamentalMetrics")
    /\ Len(args.financials.income) = 3
    /\ <<args.financials.income[1].date, args.financials.income[2].date,
         args.financials.income[3].date>> = <<2, 3, 1>>
    /\ <<args.financials.balance[1].date, args.financials.balance[2].date,
         args.financials.balance[3].date>> = <<1, 3, 2>>
    /\ <<args.financials.cashFlow[1].date, args.financials.cashFlow[2].date,
         args.financials.cashFlow[3].date>> = <<3, 1, 2>>
    /\ locals.sortedIncome # args.financials.income
    /\ result.value.roicTrend # 0

-----------------------------------------------------------------------------
(* Properties of the weighted fair value and of the confidence score       *)

\* The values of the models that contribute: those above 0.
Contributing(dcfValue, earningsValue) == {v \in {dcfValue, earningsValue} : v > 0}

\* C19: with the default weights, 0.6 for the DCF and 0.4 for the earnings
\* multiple, calculateWeightedFairValue returns 0 when neither value is above 0,
\* the one value above 0 when there is exactly one, and
\* 0.6*dcfValue + 0.4*earningsValue when both are; a result of contributing
\* values lies between the smallest and the largest of them.
C19_WeightedFairValue ==
    Done("calculateWeightedFairValue") =>
        /\ result.kind = "return"
        /\ args.dcfValue <= 0 /\ args.earningsValue <= 0 => result.value = 0
        /\ args.dcfValue > 0 /\ args.earningsValue <= 0 => result.value = args.dcfValue
        /\ args.dcfValue <= 0 /\ args.earningsValue > 0 => result.value = args.earningsValue
        /\ args.dcfValue > 0 /\ args.earningsValue > 0 =>
             Abs(10 * result.value - (6 * args.dcfValue + 4 * args.earningsValue)) <= 10
        /\ \A v \in Contributing(args.dcfValue, args.earningsValue) :
             \E lo, hi \in Contributing(args.dcfValue, args.earningsValue) :
                 lo <= result.value /\ result.value <= hi

\* A DCF value of 250 and an earnings value of 100 give 190.
C19_Witness ==
    /\ Done("calculateWeightedFairValue")
    /\ args.dcfValue = 250 * MoneyScale
    /\ args.earningsValue = 100 * MoneyScale
    /\ result = Return(190 * MoneyScale)

\* The weights of the confidence score, in hundredths, in the order of the
\* factors.
ConfidenceWeightsStated == <<25, 20, 20, 20, 15>>

YearsOfData(financials) ==
    Min(Len(financials.income), Min(Len(financials.balance), Len(financials.cashFlow)))

\* The tier of two fair values above 0 by |d - e| / max(d, e).
TierOfDifference(d, e) ==
    IF 100 * Abs(d - e) < 15 * Max(d, e) THEN 90
    ELSE IF 100 * Abs(d - e) < 30 * Max(d, e) THEN 70
    ELSE IF 100 * Abs(d - e) < 50 * Max(d, e) THEN 40
    ELSE 20

\* The convergence tier: 50 unless both fair values are above 0; an infinite
\* DCF value is at the largest distance from every earnings value.
ConvergenceStated(intrinsicPrice, fairValue) ==
    IF intrinsicPrice.cls = "finite" /\ intrinsicPrice.v > 0 /\ fairValue > 0
    THEN TierOfDifference(intrinsicPrice.v, fairValue)
    ELSE IF intrinsicPrice = Infinity(1) /\ fairValue > 0 THEN 20
    ELSE 50

\* The tier of a margin of safety; no comparison holds for one that is no
\* number.
MarginTierStated(marginOfSafety) ==
    IF marginOfSafety.cls = "finite"
    THEN IF marginOfSafety.v * 100 >= 25 * RateScale THEN 90
         ELSE IF marginOfSafety.v * 100 >= 10 * RateScale THEN 70
         ELSE IF marginOfSafety.v >= 0 THEN 50
         ELSE 30
    ELSE IF marginOfSafety = Infinity(1) THEN 90 ELSE 30

ConfidenceSubScores(a) ==
    << Min(100, YearsOfData(a.financials) * 10),
       IF a.fundamentalScore >= 60 THEN 80 ELSE IF a.fundamentalScore >= 40 THEN 50 ELSE 20,
       ConvergenceStated(a.dcfResult.intrinsicPrice, a.earningsResult.fairValue),
       MarginTierStated(a.dcfResult.marginOfSafety),
       60 >>

\* C20: calculateConfidence returns the rounded combination, under the weights
\* 0.25, 0.20, 0.20, 0.20, 0.15, of data completeness min(100, yearsOfData*10),
\* earnings stability (80 from a fundamental score of 60, 50 from 40, else 20),
\* model convergence, the margin-of-safety tier (90 from 25%, 70 from 10%, 50
\* from 0%, else 30) and a volatility score of 60.  Model convergence is 50
\* unless both fair values are above 0, and then 90, 70, 40 or 20 for a relative
\* difference below 15%, below 30%, below 50% or not.  The score is an integer
\* of 0..100.
C20_Confidence ==
    Done("calculateConfidence") =>
        /\ result.kind = "return"
        /\ Len(result.value.factors) = 5
        /\ \A k \in 1..5 :
              /\ result.value.factors[k].score = ConfidenceSubScores(args)[k]
              /\ result.value.factors[k].weight * 100 = ConfidenceWeightsStated[k] * RateScale
        /\ IsRounded(result.value.score,
                     NormalisedAverage([k \in 1..5 |-> Score(ConfidenceSubScores(args)[k])],
                                       ConfidenceWeightsStated))
        /\ result.value.score \in 0..100

\* No DCF value above 0 and an earnings value of 100: convergence is 50.
C20_Witness ==
    /\ Done("calculateConfidence")
    /\ args.dcfResult.intrinsicPrice = Finite(0)
    /\ args.earningsResult.fairValue = 100 * MoneyScale
    /\ YearsOfData(args.financials) = MaxYearsOfData
    /\ result.value.factors[1].score = 100
    /\ result.value.factors[3].score = 50

\* C20 as stated: model convergence is 90, 70, 40 or 20 for every pair of fair
\* values.
C20_AsStated ==
    Done("calculateConfidence") => result.value.factors[3].score \in {90, 70, 40, 20}

-----------------------------------------------------------------------------
(* Properties of identifyRiskFactors                                       *)

\* The entries of the rules, in the order of the rules; the two debt entries
\* belong to one rule.
RiskEntries ==
    << Risk("financial", "high", "Very high debt-to-equity ratio"),
       Risk("financial", "medium", "Elevated debt levels"),
       Risk("operational", "medium", "Revenue declined year-over-year"),
       Risk("financial", "high", "Negative free cash flow"),
       Risk("valuation", "high", "Stock appears significantly overvalued"),
       Risk("operational", "medium", "Weak fundamental metrics") >>

\* debt / equity > n, the quotient of no equity being +-Infinity or no number.
DebtToEquityAbove(balance, n) ==
    IF balance.totalEquity > 0 THEN balance.totalDebt > n * balance.totalEquity
    ELSE IF balance.totalEquity < 0 THEN balance.totalDebt < n * balance.totalEquity
    ELSE balance.totalDebt > 0

\* Which entries the rules call for, the statements listing the latest period
\* first.
RiskRuleHolds(a, k) ==
    CASE k = 1 -> Len(a.financials.balance) > 0
                    /\ DebtToEquityAbove(a.financials.balance[1], 2)
      [] k = 2 -> Len(a.financials.balance) > 0
                    /\ DebtToEquityAbove(a.financials.balance[1], 1)
                    /\ ~DebtToEquityAbove(a.financials.balance[1], 2)
      [] k = 3 -> Len(a.financials.income) >= 2
                    /\ a.financials.income[1].revenue < a.financials.income[2].revenue
      [] k = 4 -> Len(a.financials.cashFlow) > 0
                    /\ a.financials.cashFlow[1].freeCashFlow < 0
      [] k = 5 -> a.dcfResult.marginOfSafety.cls = "finite"
                    /\ a.dcfResult.marginOfSafety.v * 5 < -RateScale
      [] k = 6 -> a.fundamentalScore < 40

ListedLatestFirst(financials) ==
    /\ \A j, k \in 1..Len(financials.income) :
          j < k => financials.income[j].date > financials.income[k].date
    /\ \A j, k \in 1..Len(financials.balance) :
          j < k => financials.balance[j].date > financials.balance[k].date
    /\ \A j, k \in 1..Len(financials.cashFlow) :
          j < k => financials.cashFlow[j].date > financials.cashFlow[k].date

-----------------------------------------------------------------------------
(* Properties of the bisection of calculateReverseDCF                      *)

\* The enterprise value the loop computes at growth rate g, when the terminal
\* value is defined.
CalculatedEV(a, g) ==
    SumDiscounted(projectFCF(a.startingFCF, g, a.terminalGrowthRate, DCF_PROJECTION_YEARS),
                  DCF_PROJECTION_YEARS, a.wacc)
      + calculatePresentValue(
            calculateTerminalValue(
                projectFCF(a.startingFCF, g, a.terminalGrowthRate,
                           DCF_PROJECTION_YEARS)[DCF_PROJECTION_YEARS].fcf,
                a.terminalGrowthRate, a.wacc).value,
            DCF_PROJECTION_YEARS, a.wacc)

\* The bracket stays within [-0.20, 0.50], the rate tried within the bracket,
\* and the passes within maxIterations.
BracketInvariant ==
    fn = "calculateReverseDCF" /\ pc # "done" =>
        /\ locals.i \in 0..maxIterations
        /\ -200000 <= locals.lowGrowth
        /\ locals.lowGrowth <= locals.impliedGrowthRate
        /\ locals.impliedGrowthRate <= locals.highGrowth
        /\ locals.highGrowth <= 500000

\* A pass that does not end the loop: the rate tried is the midpoint, one end
\* of the bracket moves to it, the lower one when the value is below the
\* target, and the count of passes goes up by one.
BracketHalved ==
    fn = "calculateReverseDCF" /\ pc = "call" /\ pc' = "call" =>
        /\ locals'.i = locals.i + 1
        /\ Abs(2 * locals'.impliedGrowthRate - (locals.lowGrowth + locals.highGrowth)) <= 1
        /\ IF CalculatedEV(args, locals'.impliedGrowthRate) < ReverseTargetEV(args)
           THEN /\ locals'.lowGrowth = locals'.impliedGrowthRate
                /\ locals'.highGrowth = locals.highGrowth
           ELSE /\ locals'.highGrowth = locals'.impliedGrowthRate
                /\ locals'.lowGrowth = locals.lowGrowth
        /\ 2 * (locals'.highGrowth - locals'.lowGrowth)
             <= locals.highGrowth - locals.lowGrowth + 1

\* C22: the loop of calculateReverseDCF makes at most 50 passes; in every pass
\* -0.20 <= lowGrowth <= impliedGrowthRate <= highGrowth <= 0.50 with
\* impliedGrowthRate the midpoint; a pass that does not end the loop halves the
\* bracket, moving lowGrowth up when calculatedEV < targetEV and highGrowth
\* down otherwise; the rate returned lies within [-0.20, 0.50] also when no
\* rate of that range gives the target.
C22_Bisection ==
    /\ [](BracketInvariant
          /\ (Done("calculateReverseDCF") /\ result.kind = "return" =>
                /\ result.value.impliedGrowthRate >= -200000
                /\ result.value.impliedGrowthRate <= 500000))
    /\ [][BracketHalved]_vars

\* All 50 passes made without reaching the target: the rate returned is at the
\* lower end of the range.
C22_Witness ==
    /\ Done("calculateReverseDCF")
    /\ locals.i = maxIterations
    /\ result.kind = "return"
    /\ result.value.impliedGrowthRate <= -199999
    /\ locals.highGrowth - locals.lowGrowth <= 1

-----------------------------------------------------------------------------
(* The floor of the growth schedule                                        *)

\* C24: from year 6 on calculateGrowthRate returns no less than
\* terminalGrowthRate, and exactly terminalGrowthRate when analystGrowthRate is
\* not above it: the schedule steps from analystGrowthRate in year 5 to
\* terminalGrowthRate in year 6.
C24_PhaseTwoFloor ==
    Done("calculateGrowthRate") =>
        /\ args.year >= 6 => result.value >= args.terminalGrowthRate
        /\ args.year >= 6 /\ args.analystGrowthRate <= args.terminalGrowthRate =>
              result.value = args.terminalGrowthRate
        /\ args.year = 5 =>
              /\ result.value = args.analystGrowthRate
              /\ args.analystGrowthRate <= args.terminalGrowthRate =>
                    calculateGrowthRate(6, args.analystGrowthRate, args.terminalGrowthRate)
                      = args.terminalGrowthRate

\* Year 6 of a schedule whose analyst rate is negative and below the terminal
\* rate; a schedule whose two rates are equal gives the same.
C24_Witness ==
    /\ Done("calculateGrowthRate")
    /\ args.year = 6
    /\ args.analystGrowthRate < 0
    /\ args.terminalGrowthRate > 0
    /\ result.value = args.terminalGrowthRate
    /\ calculateGrowthRate(6, args.terminalGrowthRate, args.terminalGrowthRate)
         = args.terminalGrowthRate

-----------------------------------------------------------------------------
(* Properties of calculateMACD                                             *)

\* The number of MACD-line values the signal is the mean of.
SignalCount(prices) == Min(Len(prices) - 26, 9)

\* C23 as stated: on a series of 26 prices or more the signal is the mean of 1
\* to 9 values of the MACD line, and macd, signal and histogram are finite with
\* histogram = macd - signal; so also on a series of exactly 26 prices.
C23_AsStated ==
    Done("calculateMACD") /\ Len(args.prices) >= 26 =>
        /\ SignalCount(args.prices) \in 1..9
        /\ IsFinite(result.value.signal)
        /\ IsFinite(result.value.histogram)
        /\ result.value.histogram = Finite(result.value.macd - result.value.signal.v)

-----------------------------------------------------------------------------
(* The latest period in the steps of analyzeStock                          *)

\* The statements with each series listed most recent first.
LatestFirstStatements(financials) ==
    [income |-> ByDate(financials.income), balance |-> ByDate(financials.balance),
     cashFlow |-> ByDate(financials.cashFlow)]

\* C25 as stated: the risk factors and the DCF inputs of an analysis are those
\* of the same statements listed most recent first, whatever the order of the
\* income, balance and cash flow arrays fetched.
C25_AsStated ==
    fn = "analyzeStock" /\ pc = "store" =>
        /\ locals.analysis.riskFactors
             = identifyRiskFactors(LatestFirstStatements(args.financials),
                                   locals.analysis.dcf,
                                   locals.analysis.fundamentalScore.score)
        /\ DCFInputsOf(locals.analysis.quote, args.financials,
                       EstimateGrowth(args.financials.income))
             = DCFInputsOf(locals.analysis.quote, LatestFirstStatements(args.financials),
                           EstimateGrowth(LatestFirstStatements(args.financials).income))

-----------------------------------------------------------------------------
(* Consistency of the analysis record                                      *)

OvervaluedRisk == Risk("valuation", "high", "Stock appears significantly overvalued")

HasRisk(analysis, risk) ==
    \E k \in 1..Len(analysis.riskFactors) : analysis.riskFactors[k] = risk

\* C26 as stated: an analysis that recommends BUY or STRONG_BUY does not carry
\* the high valuation risk 'Stock appears significantly overvalued'.
C26_AsStated ==
    fn = "analyzeStock" /\ pc = "store" /\ locals.analysis.recommendation \in {"BUY", "STRONG_BUY"}
        => ~HasRisk(locals.analysis, OvervaluedRisk)

-----------------------------------------------------------------------------
(* Monotonicity of the recommendation                                      *)

\* The place of a recommendation in STRONG_AVOID < AVOID < HOLD < BUY < STRONG_BUY.
RecommendationRank(r) ==
    CASE r = "STRONG_AVOID" -> 1
      [] r = "AVOID" -> 2
      [] r = "HOLD" -> 3
      [] r = "BUY" -> 4
      [] r = "STRONG_BUY" -> 5

\* C27.  determineRecommendation is monotone under STRONG_AVOID < AVOID < HOLD
\* < BUY < STRONG_BUY: at the same fundamentalScore a larger marginOfSafety
\* never gives a lower recommendation, and at the same marginOfSafety a larger
\* fundamentalScore never gives a lower recommendation.
C27_Monotone ==
    Done("determineRecommendation") =>
        /\ \A m \in MarginValues :
              m >= args.marginOfSafety =>
                  RecommendationRank(determineRecommendation(m, args.fundamentalScore,
                                         args.technicalScore, args.confidenceScore))
                    >= RecommendationRank(result.value)
        /\ \A f \in FundamentalScoreValues :
              f >= args.fundamentalScore =>
                  RecommendationRank(determineRecommendation(args.marginOfSafety, f,
                                         args.technicalScore, args.confidenceScore))
                    >= RecommendationRank(result.value)

\* A margin of 0.10 with a fundamental score of 39 gives HOLD, and every larger
\* margin at that score gives HOLD as well, the rules of BUY and STRONG_BUY
\* asking for a score of 50 and more.
C27_Witness ==
    /\ Done("determineRecommendation")
    /\ args.marginOfSafety = 100000 /\ args.fundamentalScore = 39
    /\ result.value = "HOLD"
    /\ determineRecommendation(300000, 39, args.technicalScore, args.confidenceScore) = "HOLD"
    /\ determineRecommendation(300000, 50, args.technicalScore, args.confidenceScore) = "BUY"

-----------------------------------------------------------------------------
(* Support and resistance                                                  *)

\* C28 as stated: for every series of at least 5 prices findSupportResistance
\* returns a support that is at most the resistance.
C28_AsStated ==
    Done("findSupportResistance") /\ Len(args.prices) >= 5 =>
        result.value.support <= result.value.resistance

-----------------------------------------------------------------------------
(* The trend of a short price history                                      *)

\* C29 as stated: with fewer than 200 prices, where calculateSMA answers 0
\* for the 200-day average (and for the 50-day one below 50 prices),
\* calculateTechnicalIndicators reports the trend 'neutral'.
C29_AsStated ==
    Done("calculateTechnicalIndicators") /\ Len(args.prices) < 200 =>
        result.value.trendDirection = "neutral"

-----------------------------------------------------------------------------
(* An analysis without a positive valuation                                *)

\* Neither model values the share above 0, at a positive price.
NoPositiveValue(analysis) ==
    /\ analysis.dcf.intrinsicPrice.cls # "nan" /\ ~FloatGT(analysis.dcf.intrinsicPrice, 0)
    /\ analysis.earningsMultiple.fairValue <= 0
    /\ analysis.quote.price > 0

\* C30.  When the DCF intrinsic price and the earnings-multiple fair value are
\* both 0 or less and the quote price is positive, analyzeStock compiles a
\* fairValue of 0, a buy zone of {0, 0}, a marginOfSafety and an upside of -1,
\* and the recommendation STRONG_AVOID when the fundamental score is below 40
\* and AVOID otherwise.
C30_NoPositiveValue ==
    fn = "analyzeStock" /\ pc = "store" /\ NoPositiveValue(locals.analysis) =>
        /\ locals.analysis.fairValue = 0
        /\ locals.analysis.buyZone = [low |-> 0, high |-> 0]
        /\ locals.analysis.marginOfSafety = -RateScale
        /\ locals.analysis.upside = -RateScale
        /\ locals.analysis.recommendation
             = IF locals.analysis.fundamentalScore.score < 40 THEN "STRONG_AVOID"
               ELSE "AVOID"

\* Statements listed oldest first with a loss in the first: a negative DCF
\* price and no earnings value, with a fundamental score of 40 or more.
C30_Witness ==
    /\ fn = "analyzeStock" /\ pc = "store" /\ NoPositiveValue(locals.analysis)
    /\ locals.analysis.fundamentalScore.score >= 40
    /\ locals.analysis.recommendation = "AVOID"

====
